---- MODULE Spec2Model ----
(***************************************************************************)
(* portview: port-to-process resolution.  A model of the three             *)
(* get_port_infos backends (src/linux.rs, src/macos.rs, src/windows.rs)    *)
(* and of kill_process (src/main.rs).                                      *)
(*                                                                         *)
(* Texts (file contents) are sequences of bytes; a byte is a one-character *)
(* string, and the two bytes of a non-ASCII character are "lead", "cont".  *)
(* 64-bit and 32-bit unsigned integers are little-endian tuples of 16-bit  *)
(* limbs, so that the arithmetic keeps the width of the source.            *)
(***************************************************************************)
EXTENDS Integers, Sequences, FiniteSets, TLC

VARIABLES
    os,                \* build target: "linux" | "macos" | "windows" | "kill"
    build,             \* "debug" | "release" (overflow checks on or off)
    pc,                \* position of the call in progress
    filter_listening,  \* argument of get_port_infos
    procfs,            \* Linux: /proc as the call sees it
    xnu,               \* macOS: what the libproc calls answer
    mib,               \* Windows: the four extended tables
    pid_sockets,       \* Windows: sockets grouped by pid, pids still to visit
    handle_log,        \* Windows: native handle events, in order
    infos,             \* the list under construction / returned
    kill,              \* kill_process: arguments, native calls, result
    call,              \* a parsing or conversion routine and its arguments
    ret,               \* what that routine returned
    app,               \* the TUI's App
    kill_log,          \* the kill_process calls the TUI has made, in order
    RUNNING,           \* main.rs: the flag the interrupt handler clears
    watch              \* JSON watch mode: sleep step, snapshots written, last result

vars == <<os, build, pc, filter_listening, procfs, xnu, mib, pid_sockets,
          handle_log, infos, kill, call, ret, app, kill_log, RUNNING, watch>>

\* the variables of the JSON watch loop, and their values while it does not run
watch_vars == <<RUNNING, watch>>

NoWatch == [step |-> 0, snapshots |-> 0, result |-> "none"]

IdleWatch ==
    /\ RUNNING = TRUE
    /\ watch = NoWatch

\* the variables of the routines and of the TUI, and their values while the
\* backends run
tui_vars == <<call, ret, app, kill_log>>

NoCall == [fn |-> "none"]

NoApp == [mode |-> "none"]

IdleTui ==
    /\ call = NoCall
    /\ ret = <<>>
    /\ app = NoApp
    /\ kill_log = <<>>

----------------------------------------------------------------------------
(* Bounds of the model *)

MaxRows == 3

----------------------------------------------------------------------------
(* Generic helpers *)

Range(s) == {s[i] : i \in 1..Len(s)}

SeqsUpTo(S, n) == UNION {[1..k -> S] : k \in 0..n}

RECURSIVE Concat(_)
Concat(ss) == IF ss = <<>> THEN <<>> ELSE Head(ss) \o Concat(Tail(ss))

None == [none |-> TRUE]
Some(v) == [some |-> v]
IsSome(o) == "some" \in DOMAIN o

----------------------------------------------------------------------------
(* Fixed-width unsigned integers: little-endian tuples of 16-bit limbs.     *)
(* u64 = 4 limbs, u32 = 2 limbs.  Every operation returns the wrapped      *)
(* value and whether it overflowed the width.                               *)

Limb == 2^16

ZeroOf(w) == [i \in 1..w |-> 0]

\* a small natural (below 2^31) as a w-limb integer
RECURSIVE ToLimbs(_, _)
ToLimbs(n, w) == IF w = 0 THEN <<>> ELSE <<n % Limb>> \o ToLimbs(n \div Limb, w - 1)

U64(n) == ToLimbs(n, 4)
U32(n) == ToLimbs(n, 2)

\* v * m + a for small m, a: [val, over]
RECURSIVE MulAddFrom(_, _, _, _)
MulAddFrom(v, m, carry, i) ==
    IF i > Len(v) THEN [val |-> <<>>, over |-> carry # 0]
    ELSE LET t == v[i] * m + carry
             rest == MulAddFrom(v, m, t \div Limb, i + 1)
         IN  [val |-> <<t % Limb>> \o rest.val, over |-> rest.over]

MulAdd(v, m, a) == MulAddFrom(v, m, a, 1)

\* a + b on equal widths: [val, over]
RECURSIVE AddFrom(_, _, _, _)
AddFrom(a, b, carry, i) ==
    IF i > Len(a) THEN [val |-> <<>>, over |-> carry # 0]
    ELSE LET t == a[i] + b[i] + carry
             rest == AddFrom(a, b, t \div Limb, i + 1)
         IN  [val |-> <<t % Limb>> \o rest.val, over |-> rest.over]

WAdd(a, b) == AddFrom(a, b, 0, 1)

\* v / d for a small divisor d > 0 (the quotient, as limbs)
RECURSIVE DivFrom(_, _, _, _)
DivFrom(v, d, rem, i) ==
    IF i = 0 THEN <<>>
    ELSE LET t == rem * Limb + v[i]
         IN  DivFrom(v, d, t % d, i - 1) \o <<t \div d>>

WDiv(v, d) == DivFrom(v, d, 0, Len(v))

\* a < b on equal widths, from the most significant limb down
RECURSIVE LessFrom(_, _, _)
LessFrom(a, b, i) ==
    IF i = 0 THEN FALSE
    ELSE IF a[i] # b[i] THEN a[i] < b[i]
    ELSE LessFrom(a, b, i - 1)

WLess(a, b) == LessFrom(a, b, Len(a))

----------------------------------------------------------------------------
(* Texts *)

Digits == {"0", "1", "2", "3", "4", "5", "6", "7", "8", "9"}

DigitVal(c) ==
    CASE c = "0" -> 0 [] c = "1" -> 1 [] c = "2" -> 2 [] c = "3" -> 3
      [] c = "4" -> 4 [] c = "5" -> 5 [] c = "6" -> 6 [] c = "7" -> 7
      [] c = "8" -> 8 [] c = "9" -> 9

\* char::is_whitespace on the bytes the model uses
IsSpace(c) == c \in {" ", "\n", "\t"}

\* str::parse::<uN>() of a token: an optional '+', then one or more digits,
\* Err (None) on an empty token, a non-digit or a value that does not fit.
RECURSIVE ParseDigits(_, _)
ParseDigits(tok, acc) ==
    IF tok = <<>> THEN Some(acc)
    ELSE IF Head(tok) \notin Digits THEN None
    ELSE LET r == MulAdd(acc, 10, DigitVal(Head(tok)))
         IN  IF r.over THEN None ELSE ParseDigits(Tail(tok), r.val)

ParseUnsigned(tok, w) ==
    LET body == IF tok # <<>> /\ Head(tok) = "+" THEN Tail(tok) ELSE tok
    IN  IF body = <<>> THEN None ELSE ParseDigits(body, ZeroOf(w))

\* str::split_whitespace
RECURSIVE SplitWs(_, _, _)
SplitWs(s, cur, acc) ==
    IF s = <<>> THEN (IF cur = <<>> THEN acc ELSE Append(acc, cur))
    ELSE IF IsSpace(Head(s))
         THEN SplitWs(Tail(s), <<>>, IF cur = <<>> THEN acc ELSE Append(acc, cur))
         ELSE SplitWs(Tail(s), Append(cur, Head(s)), acc)

split_whitespace(s) == SplitWs(s, <<>>, <<>>)

\* the element of a set of one element
Only(S) == CHOOSE x \in S : TRUE

\* str::find(pat): the 0-based offset of the first occurrence, or None
find(s, pat) ==
    LET At(i) == SubSeq(s, i, i + Len(pat) - 1) = pat
        last == Len(s) - Len(pat) + 1
    IN  IF \E i \in 1..last : At(i)
        THEN Some((CHOOSE i \in 1..last : At(i) /\ \A j \in 1..(i - 1) : ~At(j)) - 1)
        ELSE None

\* str::split_once(pat): what precedes and what follows the first pat
split_once(s, pat) ==
    Only({IF IsSome(pos)
          THEN Some(<<SubSeq(s, 1, pos.some), SubSeq(s, pos.some + Len(pat) + 1, Len(s))>>)
          ELSE None :
            pos \in {find(s, pat)}})

\* str::splitn(n, c): at most n pieces, the last one holding the rest
RECURSIVE splitn(_, _, _)
splitn(s, n, c) ==
    Only({IF n <= 1 \/ ~IsSome(cut) THEN <<s>>
          ELSE <<cut.some[1]>> \o splitn(cut.some[2], n - 1, c) :
            cut \in {split_once(s, <<c>>)}})

\* str::split(c): every piece, empty ones included
split(s, c) == splitn(s, Len(s) + 1, c)

\* str::lines: the pieces between newlines, without the empty one after the
\* last newline
lines(s) ==
    LET pieces == split(s, "\n")
    IN  IF pieces[Len(pieces)] = <<>> THEN SubSeq(pieces, 1, Len(pieces) - 1) ELSE pieces

\* str::strip_prefix
strip_prefix(s, p) ==
    IF Len(s) >= Len(p) /\ SubSeq(s, 1, Len(p)) = p
    THEN Some(SubSeq(s, Len(p) + 1, Len(s)))
    ELSE None

\* str::trim
RECURSIVE TrimStart(_)
TrimStart(s) == IF s # <<>> /\ IsSpace(Head(s)) THEN TrimStart(Tail(s)) ELSE s

RECURSIVE TrimEnd(_)
TrimEnd(s) ==
    IF s # <<>> /\ IsSpace(s[Len(s)]) THEN TrimEnd(SubSeq(s, 1, Len(s) - 1)) ELSE s

trim(s) == TrimEnd(TrimStart(s))

\* str::rfind(c): the 0-based byte offset of the last c, or None
RECURSIVE RFindFrom(_, _, _)
RFindFrom(s, c, i) ==
    IF i = 0 THEN None
    ELSE IF s[i] = c THEN Some(i - 1)
    ELSE RFindFrom(s, c, i - 1)

rfind(s, c) == RFindFrom(s, c, Len(s))

\* str::is_char_boundary(at): the start, the end, or not inside a character
is_char_boundary(s, at) ==
    \/ at = 0
    \/ at = Len(s)
    \/ at < Len(s) /\ s[at + 1] # "cont"


\* str::strip_suffix
strip_suffix(s, c) ==
    IF s # <<>> /\ s[Len(s)] = c THEN Some(SubSeq(s, 1, Len(s) - 1)) ELSE None

\* str::starts_with
starts_with(s, p) == IsSome(strip_prefix(s, p))

\* the characters the texts of a record are made of, in byte order
Ascii ==
    <<" ", "+", "-", ".", "/", "0", "1", "2", "3", "4", "5", "6", "7", "8", "9",
      ":", ">", "C", "D", "P", "T", "U", "a", "b", "c", "d", "e", "g", "h", "i",
      "k", "n", "o", "p", "r", "s", "t", "u", "w", "x", "z">>

\* the place of a character in the byte order
ByteRank(c) == CHOOSE i \in 1..Len(Ascii) : Ascii[i] = c

\* str::to_lowercase on the letters protocol names are made of
to_lowercase(s) ==
    [i \in 1..Len(s) |->
        CASE s[i] = "T" -> "t" [] s[i] = "C" -> "c" [] s[i] = "P" -> "p"
          [] s[i] = "U" -> "u" [] s[i] = "D" -> "d" [] OTHER -> s[i]]

\* Ord for str: "lt", "eq" or "gt", byte by byte, a proper prefix first
RECURSIVE StrCmp(_, _)
StrCmp(a, b) ==
    IF a = <<>> THEN (IF b = <<>> THEN "eq" ELSE "lt")
    ELSE IF b = <<>> THEN "gt"
    ELSE IF ByteRank(Head(a)) < ByteRank(Head(b)) THEN "lt"
    ELSE IF ByteRank(Head(a)) > ByteRank(Head(b)) THEN "gt"
    ELSE StrCmp(Tail(a), Tail(b))

\* slice::join(" ")
RECURSIVE JoinSp(_)
JoinSp(parts) ==
    IF parts = <<>> THEN <<>>
    ELSE IF Len(parts) = 1 THEN parts[1]
    ELSE parts[1] \o <<" ">> \o JoinSp(Tail(parts))

\* slice::split(|b| b == 0).filter(|s| !s.is_empty())
RECURSIVE SplitNul(_, _, _)
SplitNul(s, cur, acc) ==
    IF s = <<>> THEN (IF cur = <<>> THEN acc ELSE Append(acc, cur))
    ELSE IF Head(s) = "NUL"
         THEN SplitNul(Tail(s), <<>>, IF cur = <<>> THEN acc ELSE Append(acc, cur))
         ELSE SplitNul(Tail(s), Append(cur, Head(s)), acc)

\* u32::to_string: the decimal digits of a limb integer
DigitChar(d) == CASE d = 0 -> "0" [] d = 1 -> "1" [] d = 2 -> "2" [] d = 3 -> "3"
                  [] d = 4 -> "4" [] d = 5 -> "5" [] d = 6 -> "6" [] d = 7 -> "7"
                  [] d = 8 -> "8" [] d = 9 -> "9"

RECURSIVE RemFrom(_, _, _, _)
RemFrom(v, d, rem, i) ==
    IF i = 0 THEN rem ELSE RemFrom(v, d, (rem * Limb + v[i]) % d, i - 1)

WRem(v, d) == RemFrom(v, d, 0, Len(v))

RECURSIVE ToDecimal(_)
ToDecimal(v) ==
    IF WDiv(v, 10) = ZeroOf(Len(v)) THEN <<DigitChar(WRem(v, 10))>>
    ELSE Append(ToDecimal(WDiv(v, 10)), DigitChar(WRem(v, 10)))

----------------------------------------------------------------------------
(* Vec::sort_by (stable) and Vec::dedup_by with the closures the backends  *)
(* pass.  A comparator is named by the fields it compares, in order.       *)

\* Ordering::reverse
reverse(c) == CASE c = "lt" -> "gt" [] c = "gt" -> "lt" [] OTHER -> "eq"

\* Ord for u64 and for SystemTime, both kept as limb integers
WCmp(a, b) == IF WLess(a, b) THEN "lt" ELSE IF WLess(b, a) THEN "gt" ELSE "eq"

\* Ord for IpAddr on the unspecified addresses: V4 before V6
IpAddrCmp(a, b) ==
    IF a.v6 = b.v6 THEN "eq" ELSE IF b.v6 THEN "lt" ELSE "gt"

\* the Ordering the closure returns for (a, b).  The backends compare fields
\* in order; the table view compares one column and reverses the result
\* when the direction is Desc.
RECURSIVE CmpBy(_, _, _)
CmpBy(a, b, key) ==
    IF key = <<>> THEN "eq"
    ELSE IF Head(key) = "Desc" THEN reverse(CmpBy(a, b, Tail(key)))
    ELSE LET c == CASE Head(key) = "port" \/ Head(key) = "Port" ->
                         IF a.port < b.port THEN "lt"
                         ELSE IF a.port > b.port THEN "gt" ELSE "eq"
                    [] Head(key) = "protocol" -> StrCmp(a.protocol, b.protocol)
                    [] Head(key) = "process_name" ->
                         StrCmp(a.process_name, b.process_name)
                    [] Head(key) = "pid" \/ Head(key) = "Pid" ->
                         IF a.pid < b.pid THEN "lt"
                         ELSE IF a.pid > b.pid THEN "gt" ELSE "eq"
                    [] Head(key) = "Proto" ->
                         StrCmp(to_lowercase(a.protocol), to_lowercase(b.protocol))
                    [] Head(key) = "User" ->
                         StrCmp(to_lowercase(a.user), to_lowercase(b.user))
                    [] Head(key) = "Process" ->
                         StrCmp(to_lowercase(a.process_name),
                                to_lowercase(b.process_name))
                    [] Head(key) = "Uptime" ->
                         IF IsSome(a.start_time) /\ IsSome(b.start_time)
                         THEN WCmp(a.start_time.some, b.start_time.some)
                         ELSE IF IsSome(a.start_time) THEN "lt"
                         ELSE IF IsSome(b.start_time) THEN "gt"
                         ELSE "eq"
                    [] Head(key) = "Mem" -> WCmp(a.memory_bytes, b.memory_bytes)
                    [] Head(key) = "Command" ->
                         StrCmp(to_lowercase(a.command), to_lowercase(b.command))
                    [] Head(key) = "Address" -> IpAddrCmp(a.local_addr, b.local_addr)
         IN  IF c # "eq" THEN c ELSE CmpBy(a, b, Tail(key))

\* insert x after the last element that is not greater than it
RECURSIVE InsertSorted(_, _, _)
InsertSorted(sorted, x, key) ==
    IF sorted = <<>> THEN <<x>>
    ELSE IF CmpBy(sorted[Len(sorted)], x, key) = "gt"
         THEN Append(InsertSorted(SubSeq(sorted, 1, Len(sorted) - 1), x, key),
                     sorted[Len(sorted)])
         ELSE Append(sorted, x)

RECURSIVE SortFrom(_, _, _)
SortFrom(s, acc, key) ==
    IF s = <<>> THEN acc ELSE SortFrom(Tail(s), InsertSorted(acc, Head(s), key), key)

\* a sort that leaves the list as it was pushed
keep_order(s, key) == s

\* a sort that compares the first two fields of the key only
sort_by_two_fields(s, key) == SortFrom(s, <<>>, SubSeq(key, 1, 2))

sort_by(s, key) == SortFrom(s, <<>>, key)

\* the bucket closure of every backend: |a, b| a.port == b.port && ...
same_bucket(a, b) == a.port = b.port /\ a.protocol = b.protocol /\ a.pid = b.pid

\* keep an element unless it is in the bucket of the last element kept
RECURSIVE DedupFrom(_, _)
DedupFrom(s, acc) ==
    IF s = <<>> THEN acc
    ELSE IF acc # <<>> /\ same_bucket(Head(s), acc[Len(acc)])
         THEN DedupFrom(Tail(s), acc)
         ELSE DedupFrom(Tail(s), Append(acc, Head(s)))

\* a dedup that removes nothing
keep_duplicates(s) == s

dedup_by(s) == DedupFrom(s, <<>>)

----------------------------------------------------------------------------
(* TcpState (src/main.rs) *)

\* the table of UDP rows, applied to every row
from_hex_of_udp(s) ==
    CASE s = "07" -> "Listen"
      [] s = "01" -> "Established"
      [] OTHER -> "Unknown"

from_hex(s) ==
    CASE s = "0A" -> "Listen"
      [] s = "01" -> "Established"
      [] s = "06" -> "TimeWait"
      [] s = "08" -> "CloseWait"
      [] s = "04" -> "FinWait1"
      [] s = "05" -> "FinWait2"
      [] s = "02" -> "SynSent"
      [] s = "03" -> "SynRecv"
      [] s = "0B" -> "Closing"
      [] s = "09" -> "LastAck"
      [] s = "07" -> "Close"
      [] OTHER -> "Unknown"

from_tsi(state) ==
    CASE state = 0 -> "Close"
      [] state = 1 -> "Listen"
      [] state = 2 -> "SynSent"
      [] state = 3 -> "SynRecv"
      [] state = 4 -> "Established"
      [] state = 5 -> "CloseWait"
      [] state = 6 -> "FinWait1"
      [] state = 7 -> "Closing"
      [] state = 8 -> "LastAck"
      [] state = 9 -> "FinWait2"
      [] state = 10 -> "TimeWait"
      [] OTHER -> "Unknown"

from_mib(state) ==
    CASE state = 1 -> "Close"
      [] state = 2 -> "Listen"
      [] state = 3 -> "SynSent"
      [] state = 4 -> "SynRecv"
      [] state = 5 -> "Established"
      [] state = 6 -> "FinWait1"
      [] state = 7 -> "FinWait2"
      [] state = 8 -> "CloseWait"
      [] state = 9 -> "Closing"
      [] state = 10 -> "LastAck"
      [] state = 11 -> "TimeWait"
      [] state = 12 -> "Close"
      [] OTHER -> "Unknown"

\* protocol names, as the backends write them
TCP == <<"T", "C", "P">>
TCP6 == <<"T", "C", "P", "6">>
UDP == <<"U", "D", "P">>
UDP6 == <<"U", "D", "P", "6">>

\* f64 seconds: ticks / hz, kept exact; 0.0 has one representation
CpuZero == [ticks |-> ZeroOf(4), hz |-> 1]
CpuSeconds(ticks, hz) == IF ticks = ZeroOf(4) THEN CpuZero ELSE [ticks |-> ticks, hz |-> hz]

----------------------------------------------------------------------------
(* Linux backend (src/linux.rs) *)

\* a file read: Ok(text) or Err
Ok(text) == [ok |-> TRUE, text |-> text]
Err == [ok |-> FALSE, text |-> <<>>]

\* Result::unwrap_or_default on a read
unwrap_or_default(r) == IF r.ok THEN r.text ELSE <<>>

\* sysconf(_SC_CLK_TCK)
get_clock_ticks == 100

\* getpwuid_r on the account database of the modelled host, else the number
get_username(uid) ==
    IF uid = U32(0) THEN <<"r", "o", "o", "t">>
    ELSE IF uid = U32(1000) THEN <<"a", "d", "a">>
    ELSE ToDecimal(uid)

\* the rows of one /proc/net file after the header, each with at least ten
\* fields: local port (decoded), state code (field 3) and inode (field 9)
parse_proc_net(pf, path, protocol, ipv6) ==
    IF ~pf.net[path].ok THEN <<>>
    ELSE LET is_udp == starts_with(protocol, UDP)
             rows == pf.net[path].rows
             entry(r) ==
                 [protocol |-> protocol,
                  local_addr |-> [v6 |-> ipv6, addr |-> r.local_addr],
                  local_port |-> r.local_port,
                  state |-> IF is_udp
                            THEN (CASE r.st = "07" -> "Listen"
                                    [] r.st = "01" -> "Established"
                                    [] OTHER -> "Unknown")
                            ELSE from_hex(r.st),
                  inode |-> r.inode]
         IN  SelectSeq([i \in 1..Len(rows) |-> entry(rows[i])],
                       LAMBDA e : e.inode # 0)

get_all_sockets(pf) ==
    parse_proc_net(pf, "/proc/net/tcp", TCP, FALSE)
      \o parse_proc_net(pf, "/proc/net/tcp6", TCP6, TRUE)
      \o parse_proc_net(pf, "/proc/net/udp", UDP, FALSE)
      \o parse_proc_net(pf, "/proc/net/udp6", UDP6, TRUE)

\* HashMap::insert
MapInsert(m, k, v) == [x \in DOMAIN m \cup {k} |-> IF x = k THEN v ELSE m[x]]

EmptyMap == [x \in {} |-> 0]

RECURSIVE InsertLinks(_, _, _)
InsertLinks(m, links, pid) ==
    IF links = <<>> THEN m
    ELSE InsertLinks(MapInsert(m, Head(links), pid), Tail(links), pid)

\* /proc/<pid>/fd of every pid in read_dir order; an unreadable fd directory
\* is skipped; a later pid replaces an earlier one on the same inode
RECURSIVE ScanProc(_, _, _)
ScanProc(pf, dir, m) ==
    IF dir = <<>> THEN m
    ELSE LET pid == Head(dir)
         IN  IF ~pf.fd[pid].ok THEN ScanProc(pf, Tail(dir), m)
             ELSE ScanProc(pf, Tail(dir), InsertLinks(m, pf.fd[pid].links, pid))

build_inode_to_pid_map(pf) ==
    IF ~pf.proc_dir.ok THEN EmptyMap ELSE ScanProc(pf, pf.proc_dir.pids, EmptyMap)

\* a process name taken from the command line file instead of comm
name_of_cmdline(pf, pid) == trim(unwrap_or_default(pf.files[pid].cmdline))

get_process_name(pf, pid) == trim(unwrap_or_default(pf.files[pid].comm))

get_process_cmdline(pf, pid) ==
    LET raw == unwrap_or_default(pf.files[pid].cmdline)
        cmd == JoinSp(SplitNul(raw, <<>>, <<>>))
    IN  IF cmd = <<>> THEN <<"[">> \o get_process_name(pf, pid) \o <<"]">> ELSE cmd

\* the first token of rest parsed at width w, "0" when there is none, 0 on Err
FirstNumber(rest, w) ==
    LET toks == split_whitespace(rest)
        tok == IF toks = <<>> THEN <<"0">> ELSE toks[1]
        n == ParseUnsigned(tok, w)
    IN  IF IsSome(n) THEN n.some ELSE ZeroOf(w)

\* one line of the loop; over records that kb * 1024 left 64 bits
RECURSIVE StatusLines(_, _)
StatusLines(ls, acc) ==
    IF ls = <<>> THEN acc
    ELSE LET line == Head(ls)
             u == strip_prefix(line, <<"U", "i", "d", ":">>)
             v == strip_prefix(line, <<"V", "m", "R", "S", "S", ":">>)
         IN  IF IsSome(u)
             THEN StatusLines(Tail(ls), [acc EXCEPT !.uid = FirstNumber(u.some, 2)])
             ELSE IF IsSome(v)
             THEN LET r == MulAdd(FirstNumber(v.some, 4), 1024, 0)
                  IN  StatusLines(Tail(ls), [acc EXCEPT !.rss_bytes = r.val,
                                                        !.over = acc.over \/ r.over])
             ELSE StatusLines(Tail(ls), acc)

\* the loop over the lines of a status text: (uid, rss_bytes); panic: the
\* checked multiplication of a debug build aborts
status_of_text(status, bld) ==
    LET r == StatusLines(lines(status),
                         [uid |-> ZeroOf(2), rss_bytes |-> ZeroOf(4), over |-> FALSE])
    IN  [uid |-> r.uid, rss_bytes |-> r.rss_bytes, panic |-> r.over /\ bld = "debug"]

\* /proc/stat btime of the modelled host
get_boot_time == 1700000000

\* fields.get(i).and_then(|s| s.parse::<u64>().ok()), i counted from 0
FieldU64(fields, i) ==
    IF i + 1 > Len(fields) THEN None ELSE ParseUnsigned(fields[i + 1], 4)

I64Max == <<Limb - 1, Limb - 1, Limb - 1, (Limb \div 2) - 1>>

NoStat == [start_time |-> None, cpu_seconds |-> CpuZero, panic |-> FALSE]

\* the body of parse_proc_stat after a successful read: (start_time,
\* cpu_seconds); panic: the slice stat[after_comm..] is out of range or off a
\* character boundary, a checked addition of a debug build overflows, or
\* UNIX_EPOCH + Duration overflows SystemTime
stat_of_text(stat, boot_time, clock_ticks, bld) ==
    LET pos == rfind(stat, ")")
    IN  IF ~IsSome(pos) THEN NoStat
        ELSE LET after_comm == pos.some + 2
             IN  IF after_comm > Len(stat) \/ ~is_char_boundary(stat, after_comm)
                 THEN [NoStat EXCEPT !.panic = TRUE]
                 ELSE
    LET fields == split_whitespace(SubSeq(stat, after_comm + 1, Len(stat)))
        ut == FieldU64(fields, 11)
        st == FieldU64(fields, 12)
        utime == IF IsSome(ut) THEN ut.some ELSE ZeroOf(4)
        stime == IF IsSome(st) THEN st.some ELSE ZeroOf(4)
        sum == WAdd(utime, stime)
        cpu_panic == clock_ticks > 0 /\ sum.over /\ bld = "debug"
        cpu_seconds == IF clock_ticks > 0 THEN CpuSeconds(sum.val, clock_ticks)
                       ELSE CpuZero
        tk == FieldU64(fields, 19)
        has_start == IsSome(tk) /\ clock_ticks # 0
        start_secs == IF has_start
                      THEN WAdd(U64(boot_time), WDiv(tk.some, clock_ticks))
                      ELSE [val |-> ZeroOf(4), over |-> FALSE]
        start_panic == has_start /\ \/ start_secs.over /\ bld = "debug"
                                    \/ WLess(I64Max, start_secs.val)
    IN  [start_time |-> IF has_start THEN Some(start_secs.val) ELSE None,
         cpu_seconds |-> cpu_seconds,
         panic |-> cpu_panic \/ start_panic]


----------------------------------------------------------------------------
(* The /proc contents the Linux inputs are drawn from *)

\* contents of /proc/<pid>/status
StatusFile ==
    [\* the Name, Uid and VmRSS lines of a process of uid 1000 with 4 kB resident
     good |->
      <<"N", "a", "m", "e", ":", "\t", "s", "h", "\n", "U", "i", "d", ":",
        "\t", "1", "0", "0", "0", "\t", "1", "0", "0", "0", "\n", "V", "m",
        "R", "S", "S", ":", "\t", " ", " ", " ", "4", " ", "k", "B", "\n">>,
     \* a Uid line that is no number
     bad_uid |->
      <<"U", "i", "d", ":", "\t", "x", "\n", "V", "m", "R", "S", "S", ":",
        "\t", "4", " ", "k", "B", "\n">>,
     \* a uid the account database does not know
     other_uid |->
      <<"U", "i", "d", ":", "\t", "7", "0", "0", "0", "0", "\n", "V", "m",
        "R", "S", "S", ":", "\t", "4", " ", "k", "B", "\n">>,
     \* a VmRSS of 2^54 kB: 2^54 * 1024 = 2^64
     huge_rss |->
      <<"U", "i", "d", ":", "\t", "1", "0", "0", "0", "\n", "V", "m", "R",
        "S", "S", ":", "\t", "1", "8", "0", "1", "4", "3", "9", "8", "5",
        "0", "9", "4", "8", "1", "9", "8", "4", " ", "k", "B", "\n">>]

\* contents of /proc/<pid>/stat
StatFile ==
    [\* utime 12, stime 5, starttime 5000
     good |->
      <<"7", " ", "(", "s", "h", ")", " ", "S", " ", "1", " ", "7", " ", "7",
        " ", "0", " ", "-", "1", " ", "0", " ", "0", " ", "0", " ", "0", " ",
        "0", " ", "1", "2", " ", "5", " ", "0", " ", "0", " ", "2", "0", " ",
        "0", " ", "1", " ", "0", " ", "5", "0", "0", "0", " ", "0">>,
     \* ends at the last ')'
     ends_at_paren |->
      <<"7", " ", "(", "s", "h", ")">>,
     \* ends one byte after the last ')'
     ends_after_paren |->
      <<"7", " ", "(", "s", "h", ")", "\n">>,
     \* a two-byte character right after the last ')'
     non_ascii |->
      <<"7", " ", "(", "s", "h", ")", "lead", "cont", " ", "S", " ", "1">>,
     \* no ')' at all
     no_paren |->
      <<"7", " ", "s", "h", " ", "S", " ", "1">>,
     \* fewer fields than utime needs
     short |->
      <<"7", " ", "(", "s", "h", ")", " ", "S", " ", "1", " ", "7", " ", "7">>,
     \* utime and starttime are no numbers
     non_numeric |->
      <<"7", " ", "(", "s", "h", ")", " ", "S", " ", "1", " ", "7", " ", "7",
        " ", "0", " ", "-", "1", " ", "0", " ", "0", " ", "0", " ", "0", " ",
        "0", " ", "x", " ", "5", " ", "0", " ", "0", " ", "2", "0", " ", "0",
        " ", "1", " ", "0", " ", "y", " ", "0">>,
     \* utime = 2^64 - 1, stime = 1
     huge_cpu |->
      <<"7", " ", "(", "s", "h", ")", " ", "S", " ", "1", " ", "7", " ", "7",
        " ", "0", " ", "-", "1", " ", "0", " ", "0", " ", "0", " ", "0", " ",
        "0", " ", "1", "8", "4", "4", "6", "7", "4", "4", "0", "7", "3", "7",
        "0", "9", "5", "5", "1", "6", "1", "5", " ", "1", " ", "0", " ", "0",
        " ", "2", "0", " ", "0", " ", "1", " ", "0", " ", "5", "0", "0", "0",
        " ", "0">>]


Builds == {"debug", "release"}

StatusTexts == {<<>>} \cup {StatusFile[k] : k \in DOMAIN StatusFile}

StatTexts == {StatFile[k] : k \in DOMAIN StatFile}

\* The parsers are pure in the text they read; their values on the texts
\* above are computed once.
StatusParsed == [t \in StatusTexts, b \in Builds |-> status_of_text(t, b)]

StatParsed ==
    [t \in StatTexts, b \in Builds |->
        stat_of_text(t, get_boot_time, get_clock_ticks, b)]

parse_proc_status(pf, pid, bld) ==
    StatusParsed[unwrap_or_default(pf.files[pid].status), bld]

parse_proc_stat(pf, pid, boot_time, clock_ticks, bld) ==
    IF ~pf.files[pid].stat.ok THEN NoStat
    ELSE StatParsed[pf.files[pid].stat.text, bld]

count_children(pf, pid) ==
    Len(split_whitespace(unwrap_or_default(pf.files[pid].children)))

----------------------------------------------------------------------------
(* Linux: get_port_infos *)

LinuxPortInfo(pf, sock, pid, status, stat) ==
    [port |-> sock.local_port,
     protocol |-> LET t == strip_suffix(sock.protocol, "6")
                  IN  IF IsSome(t) THEN t.some ELSE sock.protocol,
     pid |-> pid,
     process_name |-> get_process_name(pf, pid),
     command |-> get_process_cmdline(pf, pid),
     user |-> get_username(status.uid),
     state |-> sock.state,
     memory_bytes |-> status.rss_bytes,
     cpu_seconds |-> stat.cpu_seconds,
     start_time |-> stat.start_time,
     children |-> count_children(pf, pid),
     local_addr |-> sock.local_addr]

\* a listening filter without the exemption of UDP
skip_all_not_listening(sock, filter) == filter /\ sock.state # "Listen"

\* the listening filter: whether the loop skips this socket
skip_not_listening(sock, filter) ==
    filter /\ sock.state # "Listen" /\ ~starts_with(sock.protocol, UDP)

keep_zero_port(local_port) == FALSE

\* the zero-port check of every backend: whether the loop skips this socket
skip_zero_port(local_port) == local_port = 0

\* the loop over the sockets: the records pushed, or a panic on the way
RECURSIVE LinuxLoop(_, _, _, _, _, _)
LinuxLoop(pf, socks, inode_map, filter, bld, acc) ==
    IF socks = <<>> THEN [panic |-> FALSE, infos |-> acc]
    ELSE LET sock == Head(socks)
             rest == Tail(socks)
         IN  IF skip_not_listening(sock, filter)
             THEN LinuxLoop(pf, rest, inode_map, filter, bld, acc)
             ELSE IF skip_zero_port(sock.local_port)
             THEN LinuxLoop(pf, rest, inode_map, filter, bld, acc)
             ELSE IF sock.inode \notin DOMAIN inode_map
             THEN LinuxLoop(pf, rest, inode_map, filter, bld, acc)
             ELSE LET pid == inode_map[sock.inode]
                      status == parse_proc_status(pf, pid, bld)
                      stat == IF status.panic THEN NoStat
                              ELSE parse_proc_stat(pf, pid, get_boot_time,
                                                   get_clock_ticks, bld)
                  IN  IF status.panic \/ stat.panic
                      THEN [panic |-> TRUE, infos |-> acc]
                      ELSE LinuxLoop(pf, rest, inode_map, filter, bld,
                                     Append(acc, LinuxPortInfo(pf, sock, pid, status, stat)))

linux_get_port_infos(pf, filter, bld) ==
    LET sockets == get_all_sockets(pf)
        inode_map == build_inode_to_pid_map(pf)
        pushed == LinuxLoop(pf, sockets, inode_map, filter, bld, <<>>)
    IN  IF pushed.panic THEN [panic |-> TRUE, infos |-> <<>>]
        ELSE [panic |-> FALSE,
              infos |-> dedup_by(sort_by(pushed.infos, <<"port", "protocol">>))]

LinuxGetPortInfos ==
    /\ os = "linux"
    /\ pc = "idle"
    /\ \E f \in BOOLEAN :
         LET r == linux_get_port_infos(procfs, f, build)
         IN  /\ filter_listening' = f
             /\ infos' = r.infos
             /\ pc' = IF r.panic THEN "panic" ELSE "done"
    /\ UNCHANGED <<tui_vars, watch_vars, os, build, procfs, xnu, mib, pid_sockets,
                   handle_log, kill>>

----------------------------------------------------------------------------
(* Linux inputs *)

NetPaths == <<"/proc/net/tcp", "/proc/net/tcp6", "/proc/net/udp", "/proc/net/udp6">>

Row(port, st, inode) ==
    [local_addr |-> "unspecified", local_port |-> port, st |-> st, inode |-> inode]

\* listening or established sockets on ports 80 and 81 with inodes 1 and 2,
\* and one row for each special value: port 0, the code 07 (Close for TCP,
\* bound for UDP), inode 0, a second socket (inode 3) of the process that
\* holds inode 1, and an inode (4) no visited process holds
NetRows ==
    {Row(p, st, i) : p \in {80, 81}, st \in {"0A", "01"}, i \in {1, 2}}
      \cup {Row(0, "0A", 1), Row(80, "07", 1), Row(80, "0A", 0), Row(80, "0A", 3),
            Row(80, "0A", 4)}

Pids == {1, 2}

\* The five readable files of /proc/<pid> for a process started as `sh -c`
\* with two children: comm, cmdline, status, stat and task/<pid>/children.
GoodFiles ==
    [comm |-> Ok(<<"s", "h", "\n">>),
     cmdline |-> Ok(<<"s", "h", "NUL", "-", "c", "NUL">>),
     status |-> Ok(StatusFile.good),
     stat |-> Ok(StatFile.good),
     children |-> Ok(<<"8", " ", "9", " ", "\n">>)]

MkProc(tcp, tcp6, udp, udp6, fd, files) ==
    [net |-> [p \in Range(NetPaths) |->
                [ok |-> TRUE,
                 rows |-> CASE p = "/proc/net/tcp" -> tcp
                            [] p = "/proc/net/tcp6" -> tcp6
                            [] p = "/proc/net/udp" -> udp
                            [] p = "/proc/net/udp6" -> udp6]],
     proc_dir |-> [ok |-> TRUE, pids |-> <<1, 2>>],
     fd |-> fd,
     files |-> files]

\* pid 1 holds socket inodes 1 and 3, pid 2 holds socket inode 2
HeldFds == [p \in Pids |-> [ok |-> TRUE, links |-> IF p = 1 THEN <<1, 3>> ELSE <<2>>]]

NoProc == [net |-> <<>>, proc_dir |-> <<>>, fd |-> <<>>, files |-> <<>>]
NoKill ==
    [pid |-> <<0, 0>>, force |-> FALSE, target |-> "ok", calls |-> <<>>,
     result |-> [ok |-> FALSE, kind |-> "none"]]

\* a socket has one inode and one row; inode 0 is what the kernel writes for
\* a socket without one
DistinctInodes(rows) ==
    \A i, j \in 1..Len(rows) :
        (i # j /\ rows[i].inode # 0) => rows[i].inode # rows[j].inode

\* any rows in the four files, MaxRows in all; every process readable
InitLinuxSockets ==
    /\ os = "linux"
    /\ build = "release"
    /\ pc = "idle"
    /\ filter_listening = FALSE
    /\ \E tcp \in SeqsUpTo(NetRows, MaxRows) :
       \E tcp6 \in SeqsUpTo(NetRows, MaxRows - Len(tcp)) :
       \E udp \in SeqsUpTo(NetRows, MaxRows - Len(tcp) - Len(tcp6)) :
       \E udp6 \in SeqsUpTo(NetRows, MaxRows - Len(tcp) - Len(tcp6) - Len(udp)) :
         /\ DistinctInodes(tcp \o tcp6 \o udp \o udp6)
         /\ procfs = MkProc(tcp, tcp6, udp, udp6, HeldFds, [p \in Pids |-> GoodFiles])
    /\ xnu = <<>>
    /\ mib = <<>>
    /\ pid_sockets = <<>>
    /\ handle_log = <<>>
    /\ IdleTui
    /\ IdleWatch
    /\ infos = <<>>
    /\ kill = NoKill

\* The per-process sources of pid p: its five detail files and its fd
\* directory.  A fault replaces what one source holds.
ProcFiles == {"comm", "cmdline", "status", "stat", "children"}

Slots == Pids \X (ProcFiles \cup {"fd"})

\* what a faulty source may hold instead: an unreadable file (Err), or
\* another text; an fd directory that cannot be read (permission denied), or
\* one that also links the sockets of the other process (inherited fds)
Faults(slot) ==
    CASE slot[2] = "comm" -> {Err}
      [] slot[2] = "cmdline" -> {Err, Ok(<<>>)}
      [] slot[2] = "status" ->
           {Err, Ok(StatusFile.bad_uid), Ok(StatusFile.other_uid), Ok(StatusFile.huge_rss)}
      [] slot[2] = "stat" ->
           {Err} \cup {Ok(t) : t \in StatTexts \ {StatFile.good}}
      [] slot[2] = "children" -> {Err, Ok(<<>>)}
      [] slot[2] = "fd" ->
           {[ok |-> FALSE, links |-> HeldFds[slot[1]].links],
            [ok |-> TRUE, links |-> <<1, 2, 3>>]}

AllFaults == UNION {Faults(sl) : sl \in Slots}

MaxFaults == 2

FaultSets == {S \in SUBSET Slots : Cardinality(S) <= MaxFaults}

\* the sources of all processes under the faults v (a function on some
\* slots), the processes in D being inaccessible as a whole (permission
\* denied on every file and on the fd directory)
FaultyFiles(v, D) ==
    [p \in Pids |->
        [f \in ProcFiles |-> IF p \in D THEN Err
                             ELSE IF <<p, f>> \in DOMAIN v THEN v[<<p, f>>]
                             ELSE GoodFiles[f]]]

FaultyFds(v, D) ==
    [p \in Pids |-> IF p \in D THEN [ok |-> FALSE, links |-> HeldFds[p].links]
                    ELSE IF <<p, "fd">> \in DOMAIN v THEN v[<<p, "fd">>]
                    ELSE HeldFds[p]]

\* three sockets: pid 1 listens on TCP 80 and has a connected UDP socket on
\* 81, pid 2 listens on TCP 81; up to MaxFaults faulty sources, any set of
\* inaccessible processes; either build
InitLinuxFiles ==
    /\ os = "linux"
    /\ build \in Builds
    /\ pc = "idle"
    /\ filter_listening = FALSE
    /\ \E S \in FaultSets :
       \E v \in [S -> AllFaults] :
       \E D \in SUBSET Pids :
         /\ \A sl \in S : v[sl] \in Faults(sl) /\ sl[1] \notin D
         /\ procfs = MkProc(<<Row(80, "0A", 1), Row(81, "0A", 2)>>, <<>>,
                            <<Row(81, "01", 3)>>, <<>>,
                            FaultyFds(v, D), FaultyFiles(v, D))
    /\ xnu = <<>>
    /\ mib = <<>>
    /\ pid_sockets = <<>>
    /\ handle_log = <<>>
    /\ IdleTui
    /\ IdleWatch
    /\ infos = <<>>
    /\ kill = NoKill

InitLinux == InitLinuxFiles \/ InitLinuxSockets

NextLinux == LinuxGetPortInfos

SpecLinux == InitLinux /\ [][NextLinux]_vars

----------------------------------------------------------------------------
(* macOS backend (src/macos.rs) *)

PROX_FDTYPE_SOCKET == 2
SOCKINFO_TCP == 2
SOCKINFO_IN == 1
INI_IPV4 == 1
INI_IPV6 == 2

Min(a, b) == IF a < b THEN a ELSE b

\* x & flag # 0 for a one-bit flag
HasBit(x, flag) == (x \div flag) % 2 = 1

\* u16::from_be(x as u16) on a little-endian host: truncate, swap the bytes
from_be16(x) == LET t == x % Limb IN (t % 256) * 256 + (t \div 256)

\* str::rsplit(c).next(): what follows the last c, the whole text without c
rsplit_next(s, c) ==
    LET pos == rfind(s, c)
    IN  IF IsSome(pos) THEN SubSeq(s, pos.some + 2, Len(s)) ELSE s

\* proc_listpids twice: the size, then the fill of a buffer of size/4 + 64
\* entries; the kernel's list may have changed in between
list_all_pids(x) ==
    IF x.listpids.size <= 0 THEN <<>>
    ELSE LET count == (x.listpids.size \div 4) + 64
             filled == SubSeq(x.listpids.pids, 1, Min(Len(x.listpids.pids), count))
             actual == 4 * Len(filled)
         IN  IF actual <= 0 THEN <<>>
             ELSE SelectSeq(filled, LAMBDA q : q > 0)

\* proc_pidinfo(PROC_PIDLISTFDS) twice, the buffer padded by 16 entries
list_fds(x, pid) ==
    LET size == x.fds[pid].size
    IN  IF size <= 0 THEN <<>>
        ELSE LET count == (size \div 8) + 16
                 filled == SubSeq(x.fds[pid].list, 1, Min(Len(x.fds[pid].list), count))
                 actual == 8 * Len(filled)
             IN  IF actual <= 0 THEN <<>> ELSE filled

extract_addr(laddr, vflag) ==
    IF HasBit(vflag, INI_IPV4) THEN [v6 |-> FALSE, addr |-> laddr]
    ELSE IF HasBit(vflag, INI_IPV6) THEN [v6 |-> TRUE, addr |-> laddr]
    ELSE [v6 |-> FALSE, addr |-> "unspecified"]

process_name_from_path(path) == IF path = <<>> THEN <<>> ELSE rsplit_next(path, "/")

\* the first pass over the descriptors of one pid: its qualifying sockets
RECURSIVE MacHits(_, _, _)
MacHits(fds, filter, hits) ==
    IF fds = <<>> THEN hits
    ELSE LET fd_info == Head(fds)
             rest == Tail(fds)
         IN  IF fd_info.proc_fdtype # PROX_FDTYPE_SOCKET THEN MacHits(rest, filter, hits)
             ELSE IF ~IsSome(fd_info.sock) THEN MacHits(rest, filter, hits)
             ELSE LET si == fd_info.sock.some
                  IN  IF si.soi_family \notin {"AF_INET", "AF_INET6"}
                      THEN MacHits(rest, filter, hits)
                      ELSE IF si.soi_kind \notin {SOCKINFO_TCP, SOCKINFO_IN}
                      THEN MacHits(rest, filter, hits)
                      ELSE
    LET is_tcp == si.soi_kind = SOCKINFO_TCP
        hit == [protocol |-> IF is_tcp THEN TCP ELSE UDP,
                state |-> IF is_tcp THEN from_tsi(si.tcpsi_state) ELSE "Listen",
                local_port |-> from_be16(si.insi_lport),
                local_addr |-> extract_addr(si.insi_laddr, si.insi_vflag)]
    IN  IF skip_zero_port(hit.local_port) THEN MacHits(rest, filter, hits)
        ELSE IF filter /\ hit.state # "Listen" /\ hit.protocol # UDP
        THEN MacHits(rest, filter, hits)
        ELSE MacHits(rest, filter, Append(hits, hit))

\* the details of one pid, fetched once, on each of its hits
MacRecords(x, pid, hits) ==
    LET task_info == x.task[pid]
        path == x.path[pid]
        process_name == IF path # <<>> THEN process_name_from_path(path)
                        ELSE IF IsSome(task_info) THEN task_info.some.pbi_comm
                        ELSE <<>>
        command == IF path # <<>> THEN path ELSE <<"[">> \o process_name \o <<"]">>
        uid == IF IsSome(task_info) THEN task_info.some.pbi_uid ELSE ZeroOf(2)
        rss_bytes == IF IsSome(task_info) THEN task_info.some.pti_resident_size
                     ELSE ZeroOf(4)
        cpu_ns == IF IsSome(task_info)
                  THEN WAdd(task_info.some.pti_total_user,
                            task_info.some.pti_total_system).val
                  ELSE ZeroOf(4)
        start_time == IF IsSome(task_info) /\ task_info.some.pbi_start_tvsec # ZeroOf(4)
                      THEN Some(task_info.some.pbi_start_tvsec)
                      ELSE None
        children == IF x.childpids[pid] <= 0 THEN 0 ELSE x.childpids[pid] \div 4
    IN  [i \in 1..Len(hits) |->
            [port |-> hits[i].local_port,
             protocol |-> hits[i].protocol,
             pid |-> pid,
             process_name |-> process_name,
             command |-> command,
             user |-> get_username(uid),
             state |-> hits[i].state,
             memory_bytes |-> rss_bytes,
             cpu_seconds |-> CpuSeconds(cpu_ns, 1000000000),
             start_time |-> start_time,
             children |-> children,
             local_addr |-> hits[i].local_addr]]

RECURSIVE MacLoop(_, _, _, _)
MacLoop(x, pids, filter, acc) ==
    IF pids = <<>> THEN acc
    ELSE LET pid == Head(pids)
             fds == list_fds(x, pid)
             hits == IF fds = <<>> THEN <<>> ELSE MacHits(fds, filter, <<>>)
         IN  MacLoop(x, Tail(pids), filter,
                     IF hits = <<>> THEN acc ELSE acc \o MacRecords(x, pid, hits))

macos_get_port_infos(x, filter) ==
    dedup_by(sort_by(MacLoop(x, list_all_pids(x), filter, <<>>), <<"port", "protocol">>))

MacGetPortInfos ==
    /\ os = "macos"
    /\ pc = "idle"
    /\ \E f \in BOOLEAN :
         /\ filter_listening' = f
         /\ infos' = macos_get_port_infos(xnu, f)
         /\ pc' = "done"
    /\ UNCHANGED <<tui_vars, watch_vars, os, build, procfs, xnu, mib, pid_sockets,
                   handle_log, kill>>

----------------------------------------------------------------------------
(* macOS inputs *)

Fd(fdtype, sock) == [proc_fdtype |-> fdtype, sock |-> sock]

SockInfo(family, kind, st, lport, vflag) ==
    [soi_family |-> family, soi_kind |-> kind, tcpsi_state |-> st,
     insi_lport |-> lport, insi_vflag |-> vflag, insi_laddr |-> "unspecified"]

\* a port in network byte order, as the kernel stores it
htons(port) == (port % 256) * 256 + (port \div 256)

\* listening (1) or established (4) TCP sockets and UDP sockets on ports 80
\* and 81, IPv4 or IPv6, and one descriptor for each special case: port 0, a
\* descriptor that is no socket, a socket whose info call fails (EPERM), a
\* unix-domain socket, and a socket of neither kind
MacFds ==
    {Fd(PROX_FDTYPE_SOCKET,
        Some(SockInfo(IF v = INI_IPV4 THEN "AF_INET" ELSE "AF_INET6",
                      SOCKINFO_TCP, st, htons(p), v))) :
        p \in {80, 81}, st \in {1, 4}, v \in {INI_IPV4, INI_IPV6}}
      \cup
    {Fd(PROX_FDTYPE_SOCKET, Some(SockInfo("AF_INET", SOCKINFO_IN, 0, htons(80), INI_IPV4))),
     Fd(PROX_FDTYPE_SOCKET, Some(SockInfo("AF_INET", SOCKINFO_IN, 0, htons(81), INI_IPV4))),
     Fd(PROX_FDTYPE_SOCKET, Some(SockInfo("AF_INET6", SOCKINFO_IN, 0, htons(80), INI_IPV6))),
     Fd(PROX_FDTYPE_SOCKET, Some(SockInfo("AF_INET", SOCKINFO_TCP, 1, htons(0), INI_IPV4))),
     Fd(1, None),
     Fd(PROX_FDTYPE_SOCKET, None),
     Fd(PROX_FDTYPE_SOCKET, Some(SockInfo("AF_UNIX", 3, 0, 0, 0))),
     Fd(PROX_FDTYPE_SOCKET, Some(SockInfo("AF_INET", 0, 0, htons(80), INI_IPV4)))}

\* pid 1 is fully visible; pid 2 answers neither the path nor the task call
MacTask ==
    [p \in Pids |->
        IF p = 1
        THEN Some([pbi_comm |-> <<"s", "h">>, pbi_uid |-> U32(1000),
                   pti_resident_size |-> U64(4096), pti_total_user |-> U64(12),
                   pti_total_system |-> U64(5), pbi_start_tvsec |-> U64(1700000050)])
        ELSE None]

MkXnu(pids, fds1, fds2) ==
    [listpids |-> [size |-> 4 * Len(pids), pids |-> pids],
     fds |-> [p \in Pids |->
                LET l == IF p = 1 THEN fds1 ELSE fds2
                IN  [size |-> 8 * Len(l), list |-> l]],
     task |-> MacTask,
     path |-> [p \in Pids |-> IF p = 1 THEN <<"/", "b", "i", "n", "/", "s", "h">> ELSE <<>>],
     childpids |-> [p \in Pids |-> IF p = 1 THEN 8 ELSE 0]]

\* the kernel's pid list in either order, with or without a zero entry; any
\* descriptors, MaxRows in all
InitMac ==
    /\ os = "macos"
    /\ build = "release"
    /\ pc = "idle"
    /\ filter_listening = FALSE
    /\ procfs = NoProc
    /\ \E pids \in {<<1, 2>>, <<2, 0, 1>>} :
       \E fds1 \in SeqsUpTo(MacFds, MaxRows) :
       \E fds2 \in SeqsUpTo(MacFds, MaxRows - Len(fds1)) :
         xnu = MkXnu(pids, fds1, fds2)
    /\ mib = <<>>
    /\ pid_sockets = <<>>
    /\ handle_log = <<>>
    /\ IdleTui
    /\ IdleWatch
    /\ infos = <<>>
    /\ kill = NoKill

NextMac == MacGetPortInfos

SpecMac == InitMac /\ [][NextMac]_vars

----------------------------------------------------------------------------
(* Windows backend (src/windows.rs) *)

\* a - b on equal widths, for a >= b
RECURSIVE SubFrom(_, _, _, _)
SubFrom(a, b, borrow, i) ==
    IF i > Len(a) THEN <<>>
    ELSE LET t == a[i] - b[i] - borrow
         IN  <<t % Limb>> \o SubFrom(a, b, IF t < 0 THEN 1 ELSE 0, i + 1)

WSub(a, b) == SubFrom(a, b, 0, 1)

FILETIME_UNIX_OFFSET ==
    ParseUnsigned(<<"1", "1", "6", "4", "4", "4", "7", "3", "6",
                    "0", "0", "0", "0", "0", "0", "0", "0", "0">>, 4).some

\* ((ft_high as u64) << 32) | (ft_low as u64), both 32 bits wide
filetime_to_u64(ft_low, ft_high) == ft_low \o ft_high

\* the abort of `UNIX_EPOCH + duration` when the sum is not a SystemTime
Overflow == [panic |-> "overflow when adding duration to instant"]

\* None before the Unix epoch, else the seconds and nanoseconds after it;
\* 10^7 = 10^4 * 10^3, divided in two steps.  A Windows SystemTime counts
\* 100 ns intervals since 1601 in an i64, so the sum exists up to 2^63 - 1
\* ticks; the creation times of the Windows inputs below are under it.
filetime_to_system_time(ft_low, ft_high) ==
    LET ticks == filetime_to_u64(ft_low, ft_high)
    IN  IF WLess(ticks, FILETIME_UNIX_OFFSET) THEN None
        ELSE LET unix_100ns == WSub(ticks, FILETIME_UNIX_OFFSET)
                 q == WDiv(unix_100ns, 10000)
                 secs == WDiv(q, 1000)
                 rem == WRem(q, 1000) * 10000 + WRem(unix_100ns, 10000)
                 nanos == rem * 100
             IN  IF WLess(I64Max, ticks) THEN Overflow
                 ELSE Some([secs |-> secs, nanos |-> nanos])

\* one table: the size call, then the fill call into a buffer of that size,
\* which fails when the table has grown since; no rows on any failure
TableRows(t) ==
    IF t.first # "ERROR_INSUFFICIENT_BUFFER" THEN <<>>
    ELSE IF t.fill_error \/ Len(t.rows) > t.sized_for THEN <<>>
    ELSE t.rows

TcpSockets(t, v6) ==
    LET rows == TableRows(t)
    IN  [i \in 1..Len(rows) |->
            [protocol |-> TCP,
             local_addr |-> [v6 |-> v6, addr |-> rows[i].local_addr],
             local_port |-> from_be16(rows[i].dwLocalPort),
             state |-> from_mib(rows[i].dwState),
             pid |-> rows[i].dwOwningPid]]

UdpSockets(t, v6) ==
    LET rows == TableRows(t)
    IN  [i \in 1..Len(rows) |->
            [protocol |-> UDP,
             local_addr |-> [v6 |-> v6, addr |-> rows[i].local_addr],
             local_port |-> from_be16(rows[i].dwLocalPort),
             state |-> "Listen",
             pid |-> rows[i].dwOwningPid]]

get_tcp4_sockets(m) == TcpSockets(m.tcp4, FALSE)
get_tcp6_sockets(m) == TcpSockets(m.tcp6, TRUE)
get_udp4_sockets(m) == UdpSockets(m.udp4, FALSE)
get_udp6_sockets(m) == UdpSockets(m.udp6, TRUE)

win_get_all_sockets(m) ==
    get_tcp4_sockets(m) \o get_tcp6_sockets(m) \o get_udp4_sockets(m) \o get_udp6_sockets(m)

\* native handle events
Open(kind, pid) == [op |-> "open", kind |-> kind, pid |-> pid]
Close(kind, pid) == [op |-> "close", kind |-> kind, pid |-> pid]

\* (name, path) of the image, both empty when the query fails
get_process_name_and_path(pr) ==
    IF pr.image = <<>> THEN [name |-> <<>>, path |-> <<>>]
    ELSE [name |-> rsplit_next(pr.image, "\\"), path |-> pr.image]

get_process_memory(pr) == IF pr.memory.ok THEN pr.memory.WorkingSetSize ELSE ZeroOf(4)

get_process_times(pr) ==
    IF ~pr.times.ok THEN [start_time |-> None, cpu_seconds |-> CpuZero]
    ELSE [start_time |-> filetime_to_system_time(pr.times.creation[1], pr.times.creation[2]),
          cpu_seconds |-> CpuSeconds(WAdd(filetime_to_u64(pr.times.kernel[1], pr.times.kernel[2]),
                                          filetime_to_u64(pr.times.user[1], pr.times.user[2])).val,
                                     10000000)]

\* a get_process_username whose size query returns without closing the token
username_leaking_token(pr, pid) ==
    CASE pr.token = "open_fails" -> [user |-> <<>>, events |-> <<>>]
      [] pr.token = "size_zero" -> [user |-> <<>>, events |-> <<Open("token", pid)>>]
      [] pr.token \in {"info_fails", "lookup_fails"} ->
           [user |-> <<>>, events |-> <<Open("token", pid), Close("token", pid)>>]
      [] pr.token = "ok" ->
           [user |-> pr.account, events |-> <<Open("token", pid), Close("token", pid)>>]

\* the user name and the token handle events, by the call that fails first
get_process_username(pr, pid) ==
    CASE pr.token = "open_fails" -> [user |-> <<>>, events |-> <<>>]
      [] pr.token \in {"size_zero", "info_fails", "lookup_fails"} ->
           [user |-> <<>>, events |-> <<Open("token", pid), Close("token", pid)>>]
      [] pr.token = "ok" ->
           [user |-> pr.account, events |-> <<Open("token", pid), Close("token", pid)>>]

\* th32ParentProcessID of every entry of the snapshot, tallied
RECURSIVE Tally(_, _)
Tally(parents, m) ==
    IF parents = <<>> THEN m
    ELSE LET par == Head(parents)
         IN  Tally(Tail(parents),
                   IF par = 0 THEN m
                   ELSE MapInsert(m, par, IF par \in DOMAIN m THEN m[par] + 1 ELSE 1))

build_child_count_map(m) ==
    IF ~m.snapshot.ok THEN [map |-> EmptyMap, events |-> <<>>]
    ELSE [map |-> IF m.snapshot.first_ok THEN Tally(m.snapshot.parents, EmptyMap)
                  ELSE EmptyMap,
          events |-> <<Open("snapshot", 0), Close("snapshot", 0)>>]

\* the grouping loop: pid -> its sockets, in table order
RECURSIVE GroupByPid(_, _, _)
GroupByPid(socks, filter, m) ==
    IF socks = <<>> THEN m
    ELSE LET sock == Head(socks)
         IN  IF skip_zero_port(sock.local_port) THEN GroupByPid(Tail(socks), filter, m)
             ELSE IF filter /\ sock.state # "Listen" /\ sock.protocol # UDP
             THEN GroupByPid(Tail(socks), filter, m)
             ELSE GroupByPid(Tail(socks), filter,
                             MapInsert(m, sock.pid,
                                       IF sock.pid \in DOMAIN m
                                       THEN Append(m[sock.pid], sock)
                                       ELSE <<sock>>))

WinRecord(sock, pid, name, command, user, memory_bytes, times, children) ==
    [port |-> sock.local_port,
     protocol |-> sock.protocol,
     pid |-> pid,
     process_name |-> name,
     command |-> command,
     user |-> user,
     state |-> sock.state,
     memory_bytes |-> memory_bytes,
     cpu_seconds |-> times.cpu_seconds,
     start_time |-> times.start_time,
     children |-> children,
     local_addr |-> sock.local_addr]

\* one iteration of the loop over pid_sockets: the records pushed and the
\* handle events, on the full-access, the query-only and the no-access path
WinVisit(m, pid, socks, child_map) ==
    LET pr == m.procs[pid]
        children == IF pid \in DOMAIN child_map THEN child_map[pid] ELSE 0
        np == get_process_name_and_path(pr)
        command == IF np.path = <<>> THEN <<"[">> \o np.name \o <<"]">> ELSE np.path
        times == get_process_times(pr)
        un == get_process_username(pr, pid)
        none_times == [start_time |-> None, cpu_seconds |-> CpuZero]
    IN  IF pid = 0 THEN [records |-> <<>>, events |-> <<>>]
        ELSE IF pr.access = "none"
        THEN [records |-> [i \in 1..Len(socks) |->
                             WinRecord(socks[i], pid, <<>>, <<>>, <<>>, ZeroOf(4),
                                       none_times, children)],
              events |-> <<>>]
        ELSE IF pr.access = "limited"
        THEN [records |-> [i \in 1..Len(socks) |->
                             WinRecord(socks[i], pid, np.name, command, un.user,
                                       ZeroOf(4), times, children)],
              events |-> <<Open("process", pid)>> \o un.events
                           \o <<Close("process", pid)>>]
        ELSE [records |-> [i \in 1..Len(socks) |->
                             WinRecord(socks[i], pid, np.name, command, un.user,
                                       get_process_memory(pr), times, children)],
              events |-> <<Open("process", pid)>> \o un.events
                           \o <<Close("process", pid)>>]

RECURSIVE WinLoop(_, _, _, _, _)
WinLoop(m, order, groups, child_map, acc) ==
    IF order = <<>> THEN acc
    ELSE LET pid == Head(order)
             v == WinVisit(m, pid, groups[pid], child_map)
         IN  WinLoop(m, Tail(order), groups, child_map,
                     [records |-> acc.records \o v.records,
                      events |-> acc.events \o v.events])

\* a retain that keeps every record
retain_all(s) == s

\* infos.retain(|i| !i.process_name.is_empty())
retain_named(s) == SelectSeq(s, LAMBDA i : i.process_name # <<>>)

\* order: the order in which the HashMap yields its keys
windows_get_port_infos(m, filter, order) ==
    LET sockets == win_get_all_sockets(m)
        cm == build_child_count_map(m)
        groups == GroupByPid(sockets, filter, EmptyMap)
        visited == WinLoop(m, order, groups, cm.map, [records |-> <<>>, events |-> <<>>])
    IN  [infos |-> dedup_by(sort_by(retain_named(visited.records),
                                    <<"port", "protocol", "pid">>)),
         events |-> cm.events \o visited.events,
         groups |-> groups]

\* the orders a set of keys can be iterated in
Orders(S) == {o \in [1..Cardinality(S) -> S] : Range(o) = S}

WinGetPortInfos ==
    /\ os = "windows"
    /\ pc = "idle"
    /\ \E f \in BOOLEAN :
         LET keys == DOMAIN GroupByPid(win_get_all_sockets(mib), f, EmptyMap)
         IN  \E order \in Orders(keys) :
               LET r == windows_get_port_infos(mib, f, order)
               IN  /\ filter_listening' = f
                   /\ pid_sockets' = r.groups
                   /\ handle_log' = r.events
                   /\ infos' = r.infos
                   /\ pc' = "done"
    /\ UNCHANGED <<tui_vars, watch_vars, os, build, procfs, xnu, mib, kill>>

----------------------------------------------------------------------------
(* Windows inputs *)

TcpRow(port, st, pid) ==
    [local_addr |-> "unspecified", dwLocalPort |-> htons(port), dwState |-> st,
     dwOwningPid |-> pid]

UdpRow(port, pid) ==
    [local_addr |-> "unspecified", dwLocalPort |-> htons(port), dwOwningPid |-> pid]

\* listening (2) or established (5) sockets on ports 80 and 81 of pids 1 and
\* 2, and one row for each special value: port 0, the System Idle Process
\* (pid 0), and a port field whose unused upper half is not zero
MibTcpRows ==
    {TcpRow(p, st, pid) : p \in {80, 81}, st \in {2, 5}, pid \in {1, 2}}
      \cup {TcpRow(0, 2, 1), TcpRow(80, 2, 0),
            [TcpRow(80, 2, 1) EXCEPT !.dwLocalPort = htons(80) + Limb]}

MibUdpRows ==
    {UdpRow(p, pid) : p \in {80, 81}, pid \in {1, 2}}
      \cup {UdpRow(0, 1), UdpRow(80, 0)}

Table(rows) ==
    [first |-> "ERROR_INSUFFICIENT_BUFFER", sized_for |-> Len(rows),
     fill_error |-> FALSE, rows |-> rows]

FileTime(v) == <<SubSeq(v, 1, 2), SubSeq(v, 3, 4)>>

\* a process every query succeeds on; created 2023-11-14T22:13:20Z
GoodProcess ==
    [access |-> "full",
     image |-> <<"C", ":", "\\", "b", "i", "n", "\\", "a", ".", "e", "x", "e">>,
     memory |-> [ok |-> TRUE, WorkingSetSize |-> U64(4096)],
     times |-> [ok |-> TRUE,
                creation |-> FileTime(ParseUnsigned(
                    <<"1", "3", "3", "4", "4", "4", "7", "3", "6",
                      "0", "0", "0", "0", "0", "0", "0", "0", "0">>, 4).some),
                kernel |-> FileTime(U64(5000)),
                user |-> FileTime(U64(12000))],
     token |-> "ok",
     account |-> <<"a", "d", "a">>]

GoodSnapshot == [ok |-> TRUE, first_ok |-> TRUE, parents |-> <<0, 1, 1, 2, 7>>]

MkMib(tcp4, tcp6, udp4, udp6, snapshot, procs) ==
    [tcp4 |-> tcp4, tcp6 |-> tcp6, udp4 |-> udp4, udp6 |-> udp6,
     snapshot |-> snapshot, procs |-> procs]

\* any rows in the four tables, MaxRows in all; pid 1 can be opened, pid 2
\* can be opened or not
InitWinSockets ==
    /\ os = "windows"
    /\ build = "release"
    /\ pc = "idle"
    /\ filter_listening = FALSE
    /\ procfs = NoProc
    /\ xnu = <<>>
    /\ \E tcp4 \in SeqsUpTo(MibTcpRows, MaxRows) :
       \E tcp6 \in SeqsUpTo(MibTcpRows, MaxRows - Len(tcp4)) :
       \E udp4 \in SeqsUpTo(MibUdpRows, MaxRows - Len(tcp4) - Len(tcp6)) :
       \E udp6 \in SeqsUpTo(MibUdpRows, MaxRows - Len(tcp4) - Len(tcp6) - Len(udp4)) :
       \E a2 \in {"full", "none"} :
         mib = MkMib(Table(tcp4), Table(tcp6), Table(udp4), Table(udp6), GoodSnapshot,
                     [p \in Pids |-> IF p = 2 THEN [GoodProcess EXCEPT !.access = a2]
                                     ELSE GoodProcess])
    /\ pid_sockets = <<>>
    /\ handle_log = <<>>
    /\ IdleTui
    /\ IdleWatch
    /\ infos = <<>>
    /\ kill = NoKill

\* The native sources: per process the access granted and the four queries,
\* the process snapshot, and the first table.  A fault replaces the outcome
\* of one source.
WinQueries == {"access", "image", "memory", "times", "token"}

WinSlots == (Pids \X WinQueries) \cup {<<0, "snapshot">>, <<0, "tcp4">>}

WinFaults(slot) ==
    CASE slot[2] = "access" -> {"limited", "none"}
      [] slot[2] = "image" -> {"fails"}
      [] slot[2] = "memory" -> {"fails"}
      [] slot[2] = "times" -> {"fails"}
      [] slot[2] = "token" -> {"open_fails", "size_zero", "info_fails", "lookup_fails"}
      [] slot[2] = "snapshot" -> {"invalid", "first_fails"}
      [] slot[2] = "tcp4" -> {"size_call_fails", "fill_call_fails", "grown"}

AllWinFaults == UNION {WinFaults(sl) : sl \in WinSlots}

WinFaultSets == {S \in SUBSET WinSlots : Cardinality(S) <= MaxFaults}

FaultyProcess(v, p) ==
    LET Has(q) == <<p, q>> \in DOMAIN v
    IN  [GoodProcess EXCEPT
            !.access = IF Has("access") THEN v[<<p, "access">>] ELSE @,
            !.image = IF Has("image") THEN <<>> ELSE @,
            !.memory = IF Has("memory") THEN [ok |-> FALSE, WorkingSetSize |-> ZeroOf(4)]
                       ELSE @,
            !.times = IF Has("times") THEN [@ EXCEPT !.ok = FALSE] ELSE @,
            !.token = IF Has("token") THEN v[<<p, "token">>] ELSE @]

FaultySnapshot(v) ==
    IF <<0, "snapshot">> \notin DOMAIN v THEN GoodSnapshot
    ELSE IF v[<<0, "snapshot">>] = "invalid" THEN [GoodSnapshot EXCEPT !.ok = FALSE]
    ELSE [GoodSnapshot EXCEPT !.first_ok = FALSE]

FaultyTable(v, rows) ==
    IF <<0, "tcp4">> \notin DOMAIN v THEN Table(rows)
    ELSE CASE v[<<0, "tcp4">>] = "size_call_fails" ->
                [Table(rows) EXCEPT !.first = "ERROR_NOT_SUPPORTED"]
           [] v[<<0, "tcp4">>] = "fill_call_fails" ->
                [Table(rows) EXCEPT !.fill_error = TRUE]
           [] v[<<0, "tcp4">>] = "grown" ->
                [Table(rows) EXCEPT !.sized_for = Len(rows) - 1]

\* four sockets: pid 1 listens on TCP 80 over IPv4 and IPv6 and has a UDP
\* socket on 81, pid 2 listens on TCP 81; up to MaxFaults faulty sources
InitWinProcs ==
    /\ os = "windows"
    /\ build = "release"
    /\ pc = "idle"
    /\ filter_listening = FALSE
    /\ procfs = NoProc
    /\ xnu = <<>>
    /\ \E S \in WinFaultSets :
       \E v \in [S -> AllWinFaults] :
         /\ \A sl \in S : v[sl] \in WinFaults(sl)
         /\ mib = MkMib(FaultyTable(v, <<TcpRow(80, 2, 1), TcpRow(81, 2, 2)>>),
                        Table(<<TcpRow(80, 2, 1)>>),
                        Table(<<UdpRow(81, 1)>>),
                        Table(<<>>),
                        FaultySnapshot(v),
                        [p \in Pids |-> FaultyProcess(v, p)])
    /\ pid_sockets = <<>>
    /\ handle_log = <<>>
    /\ IdleTui
    /\ IdleWatch
    /\ infos = <<>>
    /\ kill = NoKill

InitWin == InitWinProcs \/ InitWinSockets

NextWin == WinGetPortInfos

SpecWin == InitWin /\ [][NextWin]_vars

----------------------------------------------------------------------------
(* kill_process (src/main.rs) *)

I32_MAX == ParseUnsigned(<<"2", "1", "4", "7", "4", "8", "3", "6", "4", "7">>, 2).some

InvalidInput == [ok |-> FALSE, kind |-> "InvalidInput"]
last_os_error == [ok |-> FALSE, kind |-> "last_os_error"]

\* a kill_process without the check against i32::MAX
kill_process_unchecked(pid, force, target) ==
    IF pid = ZeroOf(2) THEN [calls |-> <<>>, result |-> InvalidInput]
    ELSE LET signal == IF force THEN "SIGKILL" ELSE "SIGTERM"
         IN  [calls |-> <<[fn |-> "kill", pid |-> pid, arg |-> signal]>>,
              result |-> IF target = "ok" THEN [ok |-> TRUE, kind |-> signal]
                         ELSE last_os_error]

\* cfg(unix).  target: what the system does with a signal to this pid
kill_process_unix(pid, force, target) ==
    IF pid = ZeroOf(2) THEN [calls |-> <<>>, result |-> InvalidInput]
    ELSE IF WLess(I32_MAX, pid) THEN [calls |-> <<>>, result |-> InvalidInput]
    ELSE LET signal == IF force THEN "SIGKILL" ELSE "SIGTERM"
         IN  [calls |-> <<[fn |-> "kill", pid |-> pid, arg |-> signal]>>,
              result |-> IF target = "ok" THEN [ok |-> TRUE, kind |-> signal]
                         ELSE last_os_error]

\* cfg(windows).  target: whether the process can be opened for termination
\* and whether terminating it then succeeds
kill_process_windows(pid, force, target) ==
    IF pid = ZeroOf(2) THEN [calls |-> <<>>, result |-> InvalidInput]
    ELSE IF target = "no_access"
    THEN [calls |-> <<[fn |-> "OpenProcess", pid |-> pid, arg |-> "PROCESS_TERMINATE"]>>,
          result |-> last_os_error]
    ELSE [calls |-> <<[fn |-> "OpenProcess", pid |-> pid, arg |-> "PROCESS_TERMINATE"],
                      [fn |-> "TerminateProcess", pid |-> pid, arg |-> "1"],
                      [fn |-> "CloseHandle", pid |-> pid, arg |-> "handle"]>>,
          result |-> IF target = "terminate_fails" THEN last_os_error
                     ELSE [ok |-> TRUE, kind |-> "TerminateProcess"]]

kill_process(platform, pid, force, target) ==
    IF platform = "windows" THEN kill_process_windows(pid, force, target)
    ELSE kill_process_unix(pid, force, target)

KillProcess ==
    /\ pc = "kill"
    /\ LET r == kill_process(os, kill.pid, kill.force, kill.target)
       IN  kill' = [kill EXCEPT !.calls = r.calls, !.result = r.result]
    /\ pc' = "done"
    /\ UNCHANGED <<tui_vars, watch_vars, os, build, filter_listening, procfs, xnu, mib, pid_sockets,
                   handle_log, infos>>

\* pids around the limits of u32 and i32
KillPids ==
    {U32(0), U32(1), U32(2), U32(4242), U32(65535), U32(65536),
     I32_MAX, WAdd(I32_MAX, U32(1)).val, WSub(I32_MAX, U32(1)),
     <<65535, 65535>>, <<0, 65535>>, <<65534, 65535>>}

InitKill ==
    /\ os \in {"linux", "macos", "windows"}
    /\ build = "release"
    /\ pc = "kill"
    /\ filter_listening = FALSE
    /\ procfs = NoProc
    /\ xnu = <<>>
    /\ mib = <<>>
    /\ pid_sockets = <<>>
    /\ handle_log = <<>>
    /\ IdleTui
    /\ IdleWatch
    /\ infos = <<>>
    /\ \E pid \in KillPids :
       \E force \in BOOLEAN :
       \E target \in {"ok", "no_access", "terminate_fails"} :
         kill = [NoKill EXCEPT !.pid = pid, !.force = force, !.target = target]

NextKill == KillProcess

SpecKill == InitKill /\ [][NextKill]_vars

----------------------------------------------------------------------------
(* The three backends of get_port_infos *)

Init == InitLinux \/ InitMac \/ InitWin

Next == NextLinux \/ NextMac \/ NextWin

Spec == Init /\ [][Next]_vars

\* the Linux backend on the fixed sockets with faulty sources only
SpecLinuxFiles == InitLinuxFiles /\ [][NextLinux]_vars

----------------------------------------------------------------------------
(* Properties of the assembled list *)

Triple(e) == <<e.port, e.protocol, e.pid>>

NoSharedTriple(s) == \A i, j \in 1..Len(s) : i # j => Triple(s[i]) # Triple(s[j])

HasEntry(s, port, protocol, pid) ==
    \E i \in 1..Len(s) : Triple(s[i]) = <<port, protocol, pid>>

\* C1: every list the Linux get_port_infos returns, for any socket rows, any
\* inode-to-pid table and either filter value, has no two entries with the
\* same (port, protocol, pid).
C1_LinuxNoSharedTriple == (os = "linux" /\ pc = "done") => NoSharedTriple(infos)

\* C2: on every backend and for either filter value the returned list is
\* non-decreasing in (port, protocol): of two consecutive entries a, b either
\* a.port < b.port, or a.port = b.port and a.protocol <= b.protocol.
C2_NonDecreasing ==
    pc = "done" =>
        \A i \in 1..(Len(infos) - 1) :
            \/ infos[i].port < infos[i + 1].port
            \/ /\ infos[i].port = infos[i + 1].port
               /\ StrCmp(infos[i].protocol, infos[i + 1].protocol) # "gt"

\* two sockets of one Linux process read in descending port order, returned
\* in ascending order
C2_Witness ==
    /\ os = "linux"
    /\ pc = "done"
    /\ Len(procfs.net["/proc/net/tcp"].rows) = 2
    /\ procfs.net["/proc/net/tcp"].rows[1].local_port = 81
    /\ procfs.net["/proc/net/tcp"].rows[2].local_port = 80
    /\ Len(infos) = 2
    /\ infos[1].port = 80
    /\ infos[2].port = 81

\* the UDP sockets with a nonzero port whose owner each backend can resolve,
\* as (port, pid): on Linux the inode is in the inode-to-pid table, on macOS
\* the descriptor of a listed pid answers the socket-info call, on Windows
\* the owning process can be opened and names its image
LinuxOwnedUdp ==
    LET socks == get_all_sockets(procfs)
        map == build_inode_to_pid_map(procfs)
    IN  {<<socks[i].local_port, map[socks[i].inode]>> :
            i \in {j \in 1..Len(socks) : /\ starts_with(socks[j].protocol, UDP)
                                         /\ socks[j].local_port # 0
                                         /\ socks[j].inode \in DOMAIN map}}

MacOwnedUdp ==
    {<<from_be16(fd.sock.some.insi_lport), pid>> :
        <<pid, fd>> \in
            {pf \in UNION {{<<q, d>> : d \in Range(list_fds(xnu, q))} :
                            q \in Range(list_all_pids(xnu))} :
                /\ pf[2].proc_fdtype = PROX_FDTYPE_SOCKET
                /\ IsSome(pf[2].sock)
                /\ pf[2].sock.some.soi_family \in {"AF_INET", "AF_INET6"}
                /\ pf[2].sock.some.soi_kind = SOCKINFO_IN
                /\ from_be16(pf[2].sock.some.insi_lport) # 0}}

WinResolvable(pid) ==
    pid # 0 /\ mib.procs[pid].access # "none" /\ mib.procs[pid].image # <<>>

WinOwnedUdp ==
    LET socks == win_get_all_sockets(mib)
    IN  {<<socks[i].local_port, socks[i].pid>> :
            i \in {j \in 1..Len(socks) : /\ socks[j].protocol = UDP
                                         /\ socks[j].local_port # 0
                                         /\ WinResolvable(socks[j].pid)}}

OwnedUdp ==
    CASE os = "linux" -> LinuxOwnedUdp
      [] os = "macos" -> MacOwnedUdp
      [] os = "windows" -> WinOwnedUdp

\* C3: with filter_listening = true every returned TCP entry has state
\* Listen, and every UDP socket with a nonzero local port and a resolvable
\* owner has an entry (port, "UDP", pid), whatever its state.
C3_FilterKeepsUdp ==
    (pc = "done" /\ filter_listening) =>
        /\ \A i \in 1..Len(infos) : infos[i].protocol = TCP => infos[i].state = "Listen"
        /\ \A u \in OwnedUdp : HasEntry(infos, u[1], UDP, u[2])

\* a filtered Linux run over an established TCP socket, which is left out,
\* and a connected (not bound) UDP socket, which is returned
C3_Witness ==
    /\ os = "linux"
    /\ pc = "done"
    /\ filter_listening
    /\ \E r \in Range(procfs.net["/proc/net/tcp"].rows) :
          r.st = "01" /\ r.local_port = 80 /\ r.inode = 1
    /\ ~HasEntry(infos, 80, TCP, 1)
    /\ \E i \in 1..Len(infos) :
          infos[i].protocol = UDP /\ infos[i].state = "Established"

\* C4: the Linux get_port_infos returns a list without aborting, whatever
\* the per-process stat and status files hold.
C4_LinuxNeverPanics == os = "linux" => pc # "panic"

\* the sockets a process holds, by the links of its fd directory, that pass
\* the port and listening filters
HeldSockets(p) ==
    LET socks == get_all_sockets(procfs)
    IN  {socks[i] : i \in {j \in 1..Len(socks) :
                            /\ socks[j].inode \in Range(procfs.fd[p].links)
                            /\ socks[j].local_port # 0
                            /\ ~skip_not_listening(socks[j], filter_listening)}}

\* a process whose fd directory and detail files all fail to be read
Inaccessible(p) ==
    /\ ~procfs.fd[p].ok
    /\ \A f \in ProcFiles : ~procfs.files[p][f].ok

Blank(e) ==
    /\ e.process_name = <<>>
    /\ e.command = <<>>
    /\ e.user = <<>>
    /\ e.memory_bytes = ZeroOf(4)
    /\ e.cpu_seconds = CpuZero
    /\ e.start_time = None

\* C5: on Linux every socket of a process whose fd directory and detail
\* files cannot be read still has a record, with blank fields, when it
\* passes the filters.
C5_InaccessibleStillListed ==
    (os = "linux" /\ pc = "done") =>
        \A p \in Pids :
            Inaccessible(p) =>
                \A sock \in HeldSockets(p) :
                    \E i \in 1..Len(infos) :
                        /\ infos[i].port = sock.local_port
                        /\ infos[i].pid = p
                        /\ Blank(infos[i])

\* the same /proc where reading file f of pid p fails
WithReadFailure(pf, p, f) == [pf EXCEPT !.files[p][f] = Err]

\* the fields of a record computed from each detail file; the command is
\* "[" comm "]" when the command line is empty
DerivedFrom(f) ==
    CASE f = "comm" -> {"process_name", "command"}
      [] f = "cmdline" -> {"command"}
      [] f = "status" -> {"user", "memory_bytes"}
      [] f = "stat" -> {"cpu_seconds", "start_time"}
      [] f = "children" -> {"children"}

PortInfoFields ==
    {"port", "protocol", "pid", "process_name", "command", "user", "state",
     "memory_bytes", "cpu_seconds", "start_time", "children", "local_addr"}

\* as many records in the same order, equal in every field but those of
\* pid p that are derived from file f
SameExcept(a, b, p, f) ==
    /\ Len(a) = Len(b)
    /\ \A i \in 1..Len(a) :
          \A k \in PortInfoFields :
              (a[i].pid # p \/ k \notin DerivedFrom(f)) => a[i][k] = b[i][k]

\* C6: on Linux, against a run that returned a list, the run on the same
\* system where the read of one detail file of one pid fails returns the
\* same records in the same order, different at most in the fields of that
\* pid derived from that file.
C6_ReadFailureFrame ==
    (os = "linux" /\ pc = "done") =>
        \A p \in Pids : \A f \in ProcFiles :
            procfs.files[p][f].ok =>
                LET r == linux_get_port_infos(WithReadFailure(procfs, p, f),
                                              filter_listening, build)
                IN  ~r.panic /\ SameExcept(infos, r.infos, p, f)

\* pid 1 is listed as user ada; with its status file unreadable the run lists
\* it as root with no memory, and its stat-derived fields stay
C6_Witness ==
    /\ os = "linux"
    /\ pc = "done"
    /\ procfs.files[1].status = Ok(StatusFile.good)
    /\ Len(infos) = 3
    /\ LET r == linux_get_port_infos(WithReadFailure(procfs, 1, "status"),
                                     filter_listening, build)
       IN  \E i \in 1..Len(infos) :
              /\ infos[i].pid = 1
              /\ infos[i].user = <<"a", "d", "a">>
              /\ r.infos[i].user = <<"r", "o", "o", "t">>
              /\ infos[i].memory_bytes # ZeroOf(4)
              /\ r.infos[i].memory_bytes = ZeroOf(4)
              /\ r.infos[i].cpu_seconds = infos[i].cpu_seconds

TerminationCalls(calls) ==
    SelectSeq(calls, LAMBDA c : c.fn \in {"kill", "TerminateProcess"})

\* pid 0 everywhere, and a pid above i32::MAX on Unix
Refused == kill.pid = ZeroOf(2) \/ (os # "windows" /\ WLess(I32_MAX, kill.pid))

\* C7, as claimed: kill_process answers InvalidInput without a native call
\* for pid 0 and, on Unix, for a pid above i32::MAX; for every other pid it
\* issues exactly one native termination call, on Unix with SIGKILL when
\* force is set and SIGTERM otherwise.
C7_ExactlyOneTermination ==
    pc = "done" =>
        IF Refused THEN kill.result = InvalidInput /\ kill.calls = <<>>
        ELSE /\ Len(TerminationCalls(kill.calls)) = 1
             /\ os # "windows" =>
                  TerminationCalls(kill.calls)[1].arg
                      = IF kill.force THEN "SIGKILL" ELSE "SIGTERM"

\* C7, amended: refusals as claimed; on Unix every other pid gets exactly
\* one kill call, the only native call, with SIGKILL when force is set and
\* SIGTERM otherwise; on Windows every other pid gets one OpenProcess call
\* first, then exactly one TerminateProcess call and the close of the handle
\* when the open succeeded, and no TerminateProcess call and an error result
\* when it failed.
C7_TerminationWhenOpened ==
    pc = "done" =>
        IF Refused THEN kill.result = InvalidInput /\ kill.calls = <<>>
        ELSE IF os # "windows"
        THEN kill.calls = <<[fn |-> "kill", pid |-> kill.pid,
                             arg |-> IF kill.force THEN "SIGKILL" ELSE "SIGTERM"]>>
        ELSE /\ kill.calls[1].fn = "OpenProcess"
             /\ kill.calls[1].pid = kill.pid
             /\ IF kill.target = "no_access"
                THEN /\ Len(kill.calls) = 1
                     /\ ~kill.result.ok
                ELSE /\ Len(kill.calls) = 3
                     /\ kill.calls[2].fn = "TerminateProcess"
                     /\ kill.calls[3].fn = "CloseHandle"

\* on Windows a process that cannot be opened for termination: an error and
\* no TerminateProcess call
C7_Witness ==
    /\ os = "windows"
    /\ pc = "done"
    /\ kill.pid = U32(4242)
    /\ kill.target = "no_access"
    /\ TerminationCalls(kill.calls) = <<>>
    /\ kill.result = last_os_error

Count(log, ev) == Len(SelectSeq(log, LAMBDA e : e = ev))

FirstIndex(log, ev) == CHOOSE i \in 1..Len(log) : log[i] = ev /\ \A j \in 1..(i - 1) : log[j] # ev

ProcessOpens(p) ==
    p \in DOMAIN pid_sockets /\ p # 0 /\ mib.procs[p].access # "none"

\* the handles the system grants in this run
Granted(kind, p) ==
    CASE kind = "process" -> ProcessOpens(p)
      [] kind = "token" -> ProcessOpens(p) /\ mib.procs[p].token # "open_fails"
      [] kind = "snapshot" -> mib.snapshot.ok

WinHandles == ({"process", "token"} \X Pids) \cup {<<"snapshot", 0>>}

\* C8: in the Windows get_port_infos every process, token and snapshot
\* handle the system grants is opened once and closed exactly once, after
\* its open, on every path; no other handle is opened or closed; and every
\* pid with sockets that can be opened is opened, whatever happened to the
\* pids before it.
C8_HandlesClosedOnce ==
    (os = "windows" /\ pc = "done") =>
        \A h \in WinHandles :
            LET opens == Count(handle_log, Open(h[1], h[2]))
                closes == Count(handle_log, Close(h[1], h[2]))
            IN  /\ opens = IF Granted(h[1], h[2]) THEN 1 ELSE 0
                /\ closes = opens
                /\ opens = 1 => FirstIndex(handle_log, Open(h[1], h[2]))
                                  < FirstIndex(handle_log, Close(h[1], h[2]))

\* one pid cannot be opened at all, the other is opened with full access and
\* its token size query returns nothing: the token and the process handle
\* are both closed
C8_Witness ==
    /\ os = "windows"
    /\ pc = "done"
    /\ DOMAIN pid_sockets = {1, 2}
    /\ \E p, q \in Pids :
          /\ mib.procs[p].access = "none"
          /\ mib.procs[q].access = "full"
          /\ mib.procs[q].token = "size_zero"
          /\ handle_log = <<Open("snapshot", 0), Close("snapshot", 0),
                            Open("process", q), Open("token", q),
                            Close("token", q), Close("process", q)>>

\* the sockets that pass the port and listening filters of the grouping loop
WinCandidates ==
    {sock \in Range(win_get_all_sockets(mib)) :
        /\ sock.local_port # 0
        /\ ~(filter_listening /\ sock.state # "Listen" /\ sock.protocol # UDP)}

\* C9: no entry of the Windows get_port_infos has an empty process_name; a
\* socket that passes the filters has an entry exactly when its owner is not
\* pid 0, can be opened with one of the two access levels and names its image.
C9_NamedOnly ==
    (os = "windows" /\ pc = "done") =>
        /\ \A i \in 1..Len(infos) : infos[i].process_name # <<>>
        /\ \A sock \in WinCandidates :
              HasEntry(infos, sock.local_port, sock.protocol, sock.pid)
                  <=> WinResolvable(sock.pid)

\* pid 2 cannot be opened and has a socket, which is left out; pid 1 has a
\* socket, which is returned
C9_Witness ==
    /\ os = "windows"
    /\ pc = "done"
    /\ mib.procs[2].access = "none"
    /\ \E sock \in WinCandidates : sock.pid = 2 /\ sock.local_port = 80
    /\ \E sock \in WinCandidates : sock.pid = 1 /\ sock.local_port = 80
    /\ \A i \in 1..Len(infos) : infos[i].pid = 1
    /\ Len(infos) >= 1

\* C10: every list the macOS and the Windows get_port_infos return, for any
\* sockets and either filter value, has no two entries with the same
\* (port, protocol, pid).
C10_MacWinNoSharedTriple ==
    (os \in {"macos", "windows"} /\ pc = "done") => NoSharedTriple(infos)

\* on macOS two pids share a port and protocol and one of them holds the
\* socket twice: three records pushed, two returned
C10_Witness ==
    /\ os = "macos"
    /\ pc = "done"
    /\ Len(MacLoop(xnu, list_all_pids(xnu), filter_listening, <<>>)) = 3
    /\ Len(infos) = 2
    /\ infos[1].port = infos[2].port
    /\ infos[1].protocol = infos[2].protocol
    /\ infos[1].pid # infos[2].pid

----------------------------------------------------------------------------
(* C11: zero ports *)

\* C11: no entry returned by get_port_infos has port 0, on any backend and
\* for either filter value.
C11_NoZeroPort ==
    pc = "done" => \A i \in 1..Len(infos) : infos[i].port # 0

\* a Linux table whose first row has local port 0 and an owner, followed by a
\* row with a nonzero port: only the second is returned
C11_Witness ==
    /\ os = "linux"
    /\ pc = "done"
    /\ Len(procfs.net["/proc/net/tcp"].rows) = 2
    /\ procfs.net["/proc/net/tcp"].rows[1].local_port = 0
    /\ procfs.net["/proc/net/tcp"].rows[1].inode \in DOMAIN build_inode_to_pid_map(procfs)
    /\ procfs.net["/proc/net/tcp"].rows[2].local_port = 80
    /\ Len(infos) = 1
    /\ infos[1].port = 80

----------------------------------------------------------------------------
(* Parsing and conversion routines, each applied to one input: `call` holds *)
(* the routine and its arguments, `ret` what it returned.                   *)

backend_vars == <<os, build, filter_listening, procfs, xnu, mib, pid_sockets,
                  handle_log, infos, kill>>

IdleBackends ==
    /\ os = "none"
    /\ build = "release"
    /\ filter_listening = FALSE
    /\ procfs = NoProc
    /\ xnu = <<>>
    /\ mib = <<>>
    /\ pid_sockets = <<>>
    /\ handle_log = <<>>
    /\ infos = <<>>
    /\ kill = NoKill

\* the routine `fn` runs on the arguments in `call` and returns `value`
Return(fn, value) ==
    /\ pc = "call"
    /\ call.fn = fn
    /\ ret' = value
    /\ pc' = "returned"
    /\ UNCHANGED <<backend_vars, watch_vars, call, app, kill_log>>

Returned(fn) == pc = "returned" /\ call.fn = fn

----------------------------------------------------------------------------
(* SortColumn (src/tui.rs) *)

\* the table of eight columns, without Mem
from_index_without_mem(i) ==
    CASE i = 0 -> Some("Port")
      [] i = 1 -> Some("Proto")
      [] i = 2 -> Some("Pid")
      [] i = 3 -> Some("Address")
      [] i = 4 -> Some("User")
      [] i = 5 -> Some("Process")
      [] i = 6 -> Some("Uptime")
      [] i = 7 -> Some("Command")
      [] OTHER -> None

from_index(i) ==
    CASE i = 0 -> Some("Port")
      [] i = 1 -> Some("Proto")
      [] i = 2 -> Some("Pid")
      [] i = 3 -> Some("Address")
      [] i = 4 -> Some("User")
      [] i = 5 -> Some("Process")
      [] i = 6 -> Some("Uptime")
      [] i = 7 -> Some("Mem")
      [] i = 8 -> Some("Command")
      [] OTHER -> None

FromIndex == Return("from_index", from_index(call.i))

MaxIndex == 12

FromIndexCalls == [fn : {"from_index"}, i : 0..MaxIndex]

----------------------------------------------------------------------------
(* Docker port map (src/docker.rs) *)

\* char::to_ascii_uppercase on the letters protocol names are made of
to_ascii_uppercase(s) ==
    [i \in 1..Len(s) |->
        CASE s[i] = "t" -> "T" [] s[i] = "c" -> "C" [] s[i] = "p" -> "P"
          [] s[i] = "u" -> "U" [] s[i] = "d" -> "D" [] OTHER -> s[i]]

\* a port range read as its last port
parse_last_port(raw) ==
    LET r == ParseUnsigned(trim(rsplit_next(raw, "-")), 1)
    IN  IF IsSome(r) THEN Some(r.some[1]) ELSE None

parse_first_port(raw) ==
    LET first == trim(Head(split(raw, "-")))
        r == ParseUnsigned(first, 1)
    IN  IF IsSome(r) THEN Some(r.some[1]) ELSE None

parse_host_port(host_side) ==
    parse_first_port(trim(rsplit_next(host_side, ":")))

parse_port_segment(segment) ==
    LET sides == split_once(trim(segment), <<"-", ">">>)
    IN  IF ~IsSome(sides) THEN None
        ELSE LET host_port == parse_host_port(trim(sides.some[1]))
                 parts == split_once(trim(sides.some[2]), <<"/">>)
             IN  IF ~IsSome(host_port) \/ ~IsSome(parts) THEN None
                 ELSE LET container_port == parse_first_port(trim(parts.some[1]))
                          protocol == to_ascii_uppercase(trim(parts.some[2]))
                      IN  IF ~IsSome(container_port) THEN None
                          ELSE Some(<<host_port.some, container_port.some, protocol>>)

ParsePortSegment == Return("parse_port_segment", parse_port_segment(call.segment))

\* published segments, put together from their parts: an optional address
\* (IPv4, bracketed IPv6, bare IPv6) with its ':', a host port or range,
\* "->", a container port or range, '/', a protocol; `expect` is the record
\* the parts stand for
HostAddrs ==
    {<<>>, <<"0", ".", "0", ".", "0", ".", "0", ":">>, <<"[", ":", ":", "]", ":">>,
     <<":", ":", ":">>}

HostPorts ==
    {[text |-> <<"8", "0", "8", "0">>, port |-> 8080],
     [text |-> <<"4", "9", "1", "5", "3">>, port |-> 49153],
     [text |-> <<"4", "9", "1", "5", "3", "-", "4", "9", "1", "5", "5">>, port |-> 49153],
     [text |-> <<"6", "5", "5", "3", "5">>, port |-> 65535]}

ContainerPorts ==
    {[text |-> <<"8", "0">>, port |-> 80],
     [text |-> <<"8", "0", "8", "0", "-", "8", "0", "8", "2">>, port |-> 8080],
     [text |-> <<"0">>, port |-> 0]}

Protocols ==
    {[text |-> <<"t", "c", "p">>, upper |-> <<"T", "C", "P">>],
     [text |-> <<"u", "d", "p">>, upper |-> <<"U", "D", "P">>],
     [text |-> <<"T", "C", "P">>, upper |-> <<"T", "C", "P">>]}

Published ==
    {[text |-> pad \o a \o h.text \o <<"-", ">">> \o c.text \o <<"/">> \o p.text,
      expect |-> Some(<<h.port, c.port, p.upper>>)] :
        pad \in {<<>>, <<" ">>}, a \in HostAddrs, h \in HostPorts,
        c \in ContainerPorts, p \in Protocols}

\* segments that are not of that form: without "->" (an exposed port, an
\* empty text, a range), and with "->" but without a '/', without a host or
\* container port, or with a number above 65535 for one
Unpublished ==
    {[text |-> t, expect |-> None] :
        t \in {<<"8", "0", "/", "t", "c", "p">>,
               <<>>,
               <<"8", "0", "8", "0">>,
               <<"0", ".", "0", ".", "0", ".", "0", ":", "8", "0", "-", "8", "1", "/", "t", "c", "p">>,
               <<"8", "0", ">", "8", "0", "/", "t", "c", "p">>,
               <<"8", "0", "8", "0", "-", ">", "8", "0">>,
               <<"0", ".", "0", ".", "0", ".", "0", ":", "-", ">", "8", "0", "/", "t", "c", "p">>,
               <<"8", "0", "8", "0", "-", ">", "/", "t", "c", "p">>,
               <<"6", "5", "5", "3", "6", "-", ">", "8", "0", "/", "t", "c", "p">>,
               <<"8", "0", "8", "0", "-", ">", "6", "5", "5", "3", "6", "/", "t", "c", "p">>,
               <<"8", "0", "8", "0", "-", ">", "t", "/", "t", "c", "p">>}}

SegmentCalls ==
    {[fn |-> "parse_port_segment", segment |-> s.text, expect |-> s.expect] :
        s \in Published \cup Unpublished}

\* an owner check that never finds one
never_listed(entry, owner) == FALSE

\* entry.iter().any(..): whether the owners listed hold this one already
already_listed(entry, owner) ==
    \E i \in 1..Len(entry) :
        /\ entry[i].container_id = owner.container_id
        /\ entry[i].container_port = owner.container_port
        /\ entry[i].protocol = owner.protocol

\* for segment in ports_raw.split(',')
RECURSIVE PushSegments(_, _, _)
PushSegments(result, segments, fields) ==
    IF segments = <<>> THEN result
    ELSE LET parsed == parse_port_segment(Head(segments))
         IN  IF ~IsSome(parsed) THEN PushSegments(result, Tail(segments), fields)
             ELSE LET host_port == parsed.some[1]
                      owner == [container_id |-> fields[1],
                                container_name |-> fields[2],
                                image |-> fields[3],
                                container_port |-> parsed.some[2],
                                protocol |-> parsed.some[3]]
                      entry == IF host_port \in DOMAIN result THEN result[host_port]
                               ELSE <<>>
                      pushed == IF already_listed(entry, owner) THEN entry
                                ELSE Append(entry, owner)
                  IN  PushSegments(MapInsert(result, host_port, pushed),
                                   Tail(segments), fields)

\* for line in stdout.lines()
RECURSIVE PsLines(_, _)
PsLines(result, ls) ==
    IF ls = <<>> THEN result
    ELSE LET fields == splitn(Head(ls), 4, "\t")
         IN  IF Len(fields) < 4 THEN PsLines(result, Tail(ls))
             ELSE IF trim(fields[4]) = <<>> THEN PsLines(result, Tail(ls))
             ELSE PsLines(PushSegments(result, split(fields[4], ","), fields),
                          Tail(ls))

parse_ps_output(stdout) == PsLines(EmptyMap, lines(stdout))

\* the text of `docker ps`: every line with its newline
RECURSIVE PsText(_)
PsText(ls) == IF ls = <<>> THEN <<>> ELSE Head(ls).text \o <<"\n">> \o PsText(Tail(ls))

ParsePsOutput == Return("parse_ps_output", parse_ps_output(PsText(call.lines)))

\* the ports column: both address families of one mapping, one family, the
\* same host port over UDP, two container ports behind one host port, a
\* published and an exposed port, an exposed port alone
PortsColumns ==
    LET v4 == <<"0", ".", "0", ".", "0", ".", "0", ":">>
        v6 == <<":", ":", ":">>
        web == <<"8", "0", "8", "0", "-", ">", "8", "0", "/", "t", "c", "p">>
        dns == <<"8", "0", "8", "0", "-", ">", "8", "0", "/", "u", "d", "p">>
        alt == <<"8", "0", "8", "0", "-", ">", "8", "1", "/", "t", "c", "p">>
        high == <<"4", "9", "1", "5", "3", "-", ">", "8", "0", "/", "t", "c", "p">>
        exposed == <<"8", "0", "/", "t", "c", "p">>
        sep == <<",", " ">>
    IN  {v4 \o web \o sep \o v6 \o web,
         v4 \o web,
         v6 \o dns,
         v4 \o web \o sep \o v4 \o alt,
         v4 \o high \o sep \o exposed,
         exposed}

Containers ==
    {<<<<"a", "1">>, <<"w", "e", "b">>, <<"n", "g">>>>,
     <<<<"b", "2">>, <<"d", "b">>, <<"p", "g">>>>}

\* the lines of the listing: with a ports column, with an empty or blank
\* one, and with fewer than four fields
PsLineSet ==
    {[kind |-> "ports", text |-> c[1] \o <<"\t">> \o c[2] \o <<"\t">> \o c[3] \o <<"\t">> \o p] :
        c \in Containers, p \in PortsColumns}
      \cup {[kind |-> "empty_ports",
             text |-> c[1] \o <<"\t">> \o c[2] \o <<"\t">> \o c[3] \o <<"\t">> \o p] :
               c \in Containers, p \in {<<>>, <<" ">>}}
      \cup {[kind |-> "short", text |-> t] :
               t \in {<<>>, <<"a", "1">>,
                      <<"a", "1", "\t", "w", "e", "b", "\t", "8", "0", "8", "0", "-", ">",
                        "8", "0", "/", "t", "c", "p">>}}

MaxLines == 2

PsCalls == [fn : {"parse_ps_output"}, lines : SeqsUpTo(PsLineSet, MaxLines)]

----------------------------------------------------------------------------
(* Synthetic Docker entries (src/main.rs) *)

\* a check that finds no host port in use
port_never_in_use(host_ports, host_port) == FALSE

\* host_ports.contains(&host_port)
port_in_use(host_ports, host_port) == host_port \in host_ports

SyntheticEntry(host_port, owner) ==
    [port |-> host_port,
     protocol |-> owner.protocol,
     pid |-> 0,
     process_name |-> owner.container_name,
     command |-> owner.image \o <<" ", ":">> \o ToDecimal(<<host_port>>)
                   \o <<"-", ">">> \o ToDecimal(<<owner.container_port>>)
                   \o <<"/">> \o to_lowercase(owner.protocol),
     user |-> <<"d", "o", "c", "k", "e", "r">>,
     state |-> "Listen",
     memory_bytes |-> ZeroOf(4),
     cpu_seconds |-> CpuZero,
     start_time |-> None,
     children |-> 0,
     local_addr |-> [v6 |-> FALSE, addr |-> "unspecified"]]

\* for (&host_port, owners) in docker_map, in the order the map iterates
RECURSIVE SynthLoop(_, _, _, _)
SynthLoop(host_ports, docker_map, order, synthetic) ==
    IF order = <<>> THEN synthetic
    ELSE LET host_port == Head(order)
             owners == docker_map[host_port]
         IN  IF port_in_use(host_ports, host_port)
             THEN SynthLoop(host_ports, docker_map, Tail(order), synthetic)
             ELSE SynthLoop(host_ports, docker_map, Tail(order),
                            synthetic \o [i \in 1..Len(owners) |->
                                             SyntheticEntry(host_port, owners[i])])

\* synthetic.dedup_by on (port, protocol, process_name)
RECURSIVE DedupContainers(_, _)
DedupContainers(s, acc) ==
    IF s = <<>> THEN acc
    ELSE IF /\ acc # <<>>
            /\ Head(s).port = acc[Len(acc)].port
            /\ Head(s).protocol = acc[Len(acc)].protocol
            /\ Head(s).process_name = acc[Len(acc)].process_name
         THEN DedupContainers(Tail(s), acc)
         ELSE DedupContainers(Tail(s), Append(acc, Head(s)))

synthesize_docker_entries(host_infos, docker_map, order) ==
    LET host_ports == {host_infos[i].port : i \in 1..Len(host_infos)}
        synthetic == SynthLoop(host_ports, docker_map, order, <<>>)
    IN  DedupContainers(sort_by(synthetic, <<"port", "protocol", "process_name">>), <<>>)

SynthesizeDockerEntries ==
    /\ call.fn = "synthesize_docker_entries"
    /\ \E order \in Orders(DOMAIN call.docker_map) :
         Return("synthesize_docker_entries",
                synthesize_docker_entries(call.infos, call.docker_map, order))

\* an entry of the host list: a listening TCP socket of process `pid`
HostEntry(port, pid) ==
    [port |-> port, protocol |-> TCP, pid |-> pid,
     process_name |-> <<"s", "h">>, command |-> <<"s", "h">>,
     user |-> <<"r", "o", "o", "t">>, state |-> "Listen",
     memory_bytes |-> ZeroOf(4), cpu_seconds |-> CpuZero, start_time |-> None,
     children |-> 0, local_addr |-> [v6 |-> FALSE, addr |-> "unspecified"]]

\* host lists that use none, one or both of the published ports, and the
\* maps parse_ps_output builds from listings with a ports column
HostLists ==
    {<<>>, <<HostEntry(22, 1)>>, <<HostEntry(8080, 1)>>,
     <<HostEntry(22, 1), HostEntry(8080, 2)>>, <<HostEntry(49153, 1)>>,
     <<HostEntry(8080, 1), HostEntry(49153, 2)>>}

DockerMaps ==
    {parse_ps_output(PsText(ls)) :
        ls \in SeqsUpTo({l \in PsLineSet : l.kind = "ports"}, MaxLines)}

SynthesizeCalls ==
    [fn : {"synthesize_docker_entries"}, infos : HostLists, docker_map : DockerMaps]

----------------------------------------------------------------------------
(* FILETIME conversion (src/windows.rs), applied to one FILETIME *)

FiletimeToSystemTime ==
    Return("filetime_to_system_time", filetime_to_system_time(call.low, call.high))

\* the halves of a FILETIME around the halves of the offset, and the ends of
\* the 32-bit range and of its signed half
FiletimeLows ==
    LET off == SubSeq(FILETIME_UNIX_OFFSET, 1, 2)
    IN  {U32(0), U32(1), WSub(off, U32(1)), off, WAdd(off, U32(1)).val,
         WAdd(off, U32(9999999)).val, WAdd(off, U32(10000000)).val,
         <<65535, 65535>>}

FiletimeHighs ==
    LET off == SubSeq(FILETIME_UNIX_OFFSET, 3, 4)
    IN  {U32(0), U32(1), WSub(off, U32(1)), off, WAdd(off, U32(1)).val,
         <<65535, 32767>>, <<0, 32768>>, <<65535, 65535>>}

FiletimeCalls == [fn : {"filetime_to_system_time"}, low : FiletimeLows, high : FiletimeHighs]

----------------------------------------------------------------------------
(* /proc/net address fields (src/linux.rs) *)

HexDigits ==
    <<"0", "1", "2", "3", "4", "5", "6", "7", "8", "9", "A", "B", "C", "D", "E", "F">>

\* char::to_digit(16): both cases of a letter
HexVal(c) ==
    CASE c = "a" -> 10 [] c = "b" -> 11 [] c = "c" -> 12
      [] c = "d" -> 13 [] c = "e" -> 14 [] c = "f" -> 15
      [] OTHER -> (CHOOSE i \in 1..16 : HexDigits[i] = c) - 1

RECURSIVE ParseHexDigits(_, _)
ParseHexDigits(tok, acc) ==
    IF tok = <<>> THEN Some(acc)
    ELSE IF Head(tok) \notin Range(HexDigits) \cup {"a", "b", "c", "d", "e", "f"} THEN None
    ELSE LET r == MulAdd(acc, 16, HexVal(Head(tok)))
         IN  IF r.over THEN None ELSE ParseHexDigits(Tail(tok), r.val)

\* uN::from_str_radix(tok, 16): an optional '+', then one or more digits
from_str_radix(tok, w) ==
    LET body == IF tok # <<>> /\ Head(tok) = "+" THEN Tail(tok) ELSE tok
    IN  IF body = <<>> THEN None ELSE ParseHexDigits(body, ZeroOf(w))

\* u32::to_be_bytes: the four bytes, most significant first
to_be_bytes(n) == <<n[2] \div 256, n[2] % 256, n[1] \div 256, n[1] % 256>>

\* u32::to_be on a target of either endianness
to_be(n, target_endian) ==
    IF target_endian = "big" THEN n
    ELSE LET b == to_be_bytes(n) IN <<b[2] * 256 + b[1], b[4] * 256 + b[3]>>

\* an address parser that leaves the number in its written order
addr_v4_as_written(hex, target_endian) ==
    LET n == from_str_radix(hex, 2)
    IN  [v6 |-> FALSE, octets |-> to_be_bytes(IF IsSome(n) THEN n.some ELSE ZeroOf(2))]

parse_hex_addr_v4(hex, target_endian) ==
    LET n == from_str_radix(hex, 2)
        m == to_be(IF IsSome(n) THEN n.some ELSE ZeroOf(2), target_endian)
    IN  [v6 |-> FALSE, octets |-> to_be_bytes(m)]

\* an IPv6 parser that reverses the sixteen written bytes as one number
addr_v6_reversed_whole(hex) ==
    IF Len(hex) # 32 THEN [v6 |-> TRUE, octets |-> [i \in 1..16 |-> 0]]
    ELSE [v6 |-> TRUE,
          octets |-> [i \in 1..16 |->
                         16 * HexVal(hex[33 - 2 * i]) + HexVal(hex[34 - 2 * i])]]

parse_hex_addr_v6(hex) ==
    IF Len(hex) # 32 THEN [v6 |-> TRUE, octets |-> [i \in 1..16 |-> 0]]
    ELSE LET word(group) ==
                 LET n == from_str_radix(SubSeq(hex, group * 8 + 1, group * 8 + 8), 2)
                 IN  to_be_bytes(IF IsSome(n) THEN n.some ELSE ZeroOf(2))
         IN  [v6 |-> TRUE,
              octets |-> [i \in 1..16 |-> word((i - 1) \div 4)[4 - ((i - 1) % 4)]]]

parse_addr_port(s, ipv6, target_endian) ==
    LET parts == split(s, ":")
    IN  IF Len(parts) < 2
        THEN <<[v6 |-> ipv6, octets |-> [i \in 1..(IF ipv6 THEN 16 ELSE 4) |-> 0]], 0>>
        ELSE LET p == from_str_radix(parts[Len(parts)], 1)
                 port == IF IsSome(p) THEN p.some[1] ELSE 0
                 addr_hex == SubSeq(s, 1, rfind(s, ":").some)
             IN  <<IF ipv6 THEN parse_hex_addr_v6(addr_hex)
                   ELSE parse_hex_addr_v4(addr_hex, target_endian), port>>

ParseAddrPort ==
    Return("parse_addr_port", parse_addr_port(call.field, call.ipv6, call.target_endian))

\* address texts with the bytes of the number they write, most significant
\* first (all zero when the text is no 32-bit hex number), and port texts
\* with their value (0 when the text is no 16-bit hex number)
AddrTexts ==
    {[text |-> <<"0", "1", "0", "0", "0", "0", "7", "F">>, bytes |-> <<1, 0, 0, 127>>],
     [text |-> <<"0", "0", "0", "0", "0", "0", "0", "0">>, bytes |-> <<0, 0, 0, 0>>],
     [text |-> <<"0", "1", "0", "1", "A", "8", "C", "0">>, bytes |-> <<1, 1, 168, 192>>],
     [text |-> <<"F", "F", "F", "F", "F", "F", "F", "E">>, bytes |-> <<255, 255, 255, 254>>],
     [text |-> <<"0", "1", "0", "0", "0", "0", "7", "G">>, bytes |-> <<0, 0, 0, 0>>],
     [text |-> <<"1", "0", "1", "0", "0", "0", "0", "7", "F">>, bytes |-> <<0, 0, 0, 0>>],
     [text |-> <<>>, bytes |-> <<0, 0, 0, 0>>]}

PortTexts ==
    {[text |-> <<"0", "0", "5", "0">>, port |-> 80],
     [text |-> <<"1", "F", "9", "0">>, port |-> 8080],
     [text |-> <<"0", "0", "0", "0">>, port |-> 0],
     [text |-> <<"F", "F", "F", "F">>, port |-> 65535],
     [text |-> <<"Z", "Z", "Z", "Z">>, port |-> 0],
     [text |-> <<"1", "0", "0", "0", "0">>, port |-> 0],
     [text |-> <<>>, port |-> 0]}

\* the /proc/net texts of ::1, of ::ffff:127.0.0.1 and of 2001:db8::1
V6Loopback ==
    <<"0", "0", "0", "0", "0", "0", "0", "0", "0", "0", "0", "0", "0", "0", "0", "0",
      "0", "0", "0", "0", "0", "0", "0", "0", "0", "1", "0", "0", "0", "0", "0", "0">>

V6MappedLoopback ==
    <<"0", "0", "0", "0", "0", "0", "0", "0", "0", "0", "0", "0", "0", "0", "0", "0",
      "F", "F", "F", "F", "0", "0", "0", "0", "0", "1", "0", "0", "0", "0", "7", "F">>

V6Documentation ==
    <<"B", "8", "0", "D", "0", "1", "2", "0", "0", "0", "0", "0", "0", "0", "0", "0",
      "0", "0", "0", "0", "0", "0", "0", "0", "0", "1", "0", "0", "0", "0", "0", "0">>

\* IPv6 address texts: the three above, and texts of 8, 31 and 33 characters
V6Texts ==
    {V6Loopback, V6MappedLoopback, V6Documentation,
     <<"0", "1", "0", "0", "0", "0", "7", "F">>,
     Tail(V6MappedLoopback), <<"0">> \o V6MappedLoopback}

AddrPortCalls ==
    {[fn |-> "parse_addr_port", field |-> a.text \o <<":">> \o p.text, ipv6 |-> FALSE,
      target_endian |-> e, bytes |-> a.bytes, port |-> p.port] :
        a \in AddrTexts, p \in PortTexts, e \in {"little", "big"}}
      \cup {[fn |-> "parse_addr_port", field |-> a.text, ipv6 |-> FALSE,
             target_endian |-> e, bytes |-> <<0, 0, 0, 0>>, port |-> 0] :
               a \in AddrTexts, e \in {"little", "big"}}
      \cup {[fn |-> "parse_addr_port", field |-> t \o <<":">> \o p.text, ipv6 |-> TRUE,
             target_endian |-> e, bytes |-> <<>>, port |-> p.port] :
               t \in V6Texts, p \in PortTexts, e \in {"little", "big"}}

----------------------------------------------------------------------------
(* The state of one /proc/net row *)

\* one /proc/net file holding one row with the state code `st`
OneRowFile(path, st) ==
    [NoProc EXCEPT !.net = [p \in {path} |-> [ok |-> TRUE, rows |-> <<Row(80, st, 1)>>]]]

ParseProcNet ==
    Return("parse_proc_net",
           parse_proc_net(OneRowFile(NetPaths[call.file], call.st), NetPaths[call.file],
                          <<TCP, TCP6, UDP, UDP6>>[call.file], call.file \in {2, 4}))

\* the eleven codes of the kernel, and texts that are none of them: empty,
\* out of range, lower case, one digit
StateCodes ==
    {"01", "02", "03", "04", "05", "06", "07", "08", "09", "0A", "0B",
     "", "FF", "00", "0C", "0a", "7", "A"}

ProcNetCalls == [fn : {"parse_proc_net"}, file : 1..4, st : StateCodes]

----------------------------------------------------------------------------
(* The table view (src/tui.rs): the rows shown and their order *)

\* str::contains
contains(s, pat) == IsSome(find(s, pat))

\* IpAddr::to_string of the unspecified addresses
AddrToString(a) == IF a.v6 THEN <<":", ":">> ELSE <<"0", ".", "0", ".", "0", ".", "0">>

\* App::docker_search_match
docker_search_match(a, port, needle) ==
    /\ port \in DOMAIN a.docker_map
    /\ \E k \in 1..Len(a.docker_map[port]) :
         LET owner == a.docker_map[port][k]
         IN  \/ contains(to_lowercase(owner.container_name), needle)
             \/ contains(to_lowercase(owner.image), needle)
             \/ contains(to_lowercase(owner.container_id), needle)

\* result.retain(..) of the CLI target
RetainTarget(a, i) ==
    LET port == ParseUnsigned(a.target.some, 1)
        t == to_lowercase(a.target.some)
    IN  IF IsSome(port) THEN i.port = port.some[1]
        ELSE \/ contains(to_lowercase(i.process_name), t)
             \/ contains(to_lowercase(i.command), t)
             \/ a.docker_enabled /\ docker_search_match(a, i.port, t)

\* result.retain(..) of the interactive filter
RetainFilter(a, i) ==
    LET f == to_lowercase(a.filter_text)
    IN  \/ contains(ToDecimal(<<i.port>>), f)
        \/ contains(to_lowercase(i.protocol), f)
        \/ contains(ToDecimal(U32(i.pid)), f)
        \/ contains(AddrToString(i.local_addr), f)
        \/ contains(to_lowercase(i.process_name), f)
        \/ contains(to_lowercase(i.command), f)
        \/ contains(to_lowercase(i.user), f)
        \/ a.docker_enabled /\ docker_search_match(a, i.port, f)

\* App::filtered_ports
filtered_ports(a) ==
    LET by_target == IF IsSome(a.target)
                     THEN SelectSeq(a.ports, LAMBDA i : RetainTarget(a, i))
                     ELSE a.ports
    IN  IF a.filter_text # <<>>
        THEN SelectSeq(by_target, LAMBDA i : RetainFilter(a, i))
        ELSE by_target

\* App::sorted_ports
sorted_ports(a) ==
    sort_by(filtered_ports(a),
            IF a.sort_direction = "Desc" THEN <<"Desc", a.sort_column>>
            ELSE <<a.sort_column>>)

SortedPorts == Return("sorted_ports", sorted_ports(call.app))

\* SortColumn, in the order of SortColumn::next
Columns ==
    <<"Port", "Proto", "Pid", "Address", "User", "Process", "Uptime", "Mem", "Command">>

\* the records of a view: processes started at two instants, a process whose
\* start is unknown, and a container's published port
ViewEntry(port, pid, start_time) ==
    [HostEntry(port, pid) EXCEPT !.start_time = start_time]

WebOwner ==
    [container_id |-> <<"a", "1">>, container_name |-> <<"w", "e", "b">>,
     image |-> <<"n", "g">>, container_port |-> 80, protocol |-> TCP]

ViewEntries ==
    {ViewEntry(80, 1, Some(U64(200))), ViewEntry(81, 2, None),
     ViewEntry(8080, 3, Some(U64(100))), SyntheticEntry(49153, WebOwner)}

MaxPorts == 3

ViewLists == SeqsUpTo(ViewEntries, MaxPorts)

SortedPortsCalls ==
    [fn : {"sorted_ports"},
     app : [ports : ViewLists,
            target : {None, Some(<<"8", "0">>), Some(<<"s", "h">>)},
            filter_text : {<<>>, <<"8">>},
            docker_enabled : {FALSE},
            docker_map : {<<>>},
            sort_column : Range(Columns),
            sort_direction : {"Asc", "Desc"}]]

----------------------------------------------------------------------------
(* The interactive view (src/tui.rs): App, its key handlers and its loop. *)
(* A handler is the set of outcomes it can have: the App it leaves and    *)
(* the calls of kill_process it made.  It has several outcomes where it   *)
(* reads the system: the sockets and containers found by refresh_data and *)
(* what the system does with a signal.                                    *)

\* what get_port_infos can find from one refresh to the next
Snapshots ==
    {<<>>, <<ViewEntry(80, 1, Some(U64(200)))>>,
     <<ViewEntry(80, 1, Some(U64(200))), ViewEntry(81, 2, None)>>}

\* what get_docker_port_map can find: no container, or one publishing 49153
DockerSnapshots == {<<>>, (49153 :> <<WebOwner>>)}

\* what the system does with the signal or the termination
KillTargets == {"ok", "no_access"}

\* the platform the view runs on
TuiPlatform == "linux"

\* the messages of the Docker actions
DockerMessages == <<"stop", "restart", "logs">>

\* SortColumn::next and SortColumn::prev
ColumnIndex(col) == CHOOSE i \in 1..Len(Columns) : Columns[i] = col
next(col) == Columns[(ColumnIndex(col) % Len(Columns)) + 1]
prev(col) == Columns[((ColumnIndex(col) + Len(Columns) - 2) % Len(Columns)) + 1]

\* SortDirection::toggle
toggle(dir) == IF dir = "Asc" THEN "Desc" ELSE "Asc"

\* slice::get with a 0-based index
get(s, i) == IF i < Len(s) THEN Some(s[i + 1]) ELSE None

\* a refresh that leaves the selection as it was
keep_selection(a) == a

\* the clamp of the selection at the end of refresh_data
ClampSelection(a) ==
    LET count == Len(sorted_ports(a))
    IN  IF count = 0 THEN [a EXCEPT !.selected = None]
        ELSE IF IsSome(a.selected)
        THEN (IF a.selected.some >= count
              THEN [a EXCEPT !.selected = Some(count - 1)] ELSE a)
        ELSE [a EXCEPT !.selected = Some(0)]

\* App::refresh_data
refresh_data(a) ==
    UNION {
      LET docker_map == IF a.docker_enabled THEN docker_ps ELSE <<>>
      IN  {LET synthetic == IF a.docker_enabled
                            THEN synthesize_docker_entries(host_infos, docker_map, order)
                            ELSE <<>>
           IN  ClampSelection([a EXCEPT !.ports = host_infos \o synthetic,
                                        !.docker_map = docker_map]) :
              order \in Orders(DOMAIN docker_map)} :
      host_infos \in Snapshots, docker_ps \in DockerSnapshots}

\* App::selected_port
selected_port(a) ==
    IF IsSome(a.selected) THEN get(sorted_ports(a), a.selected.some) ELSE None

\* App::select_next, select_prev, select_first, select_last
select_next(a) ==
    LET count == Len(sorted_ports(a))
        i == IF IsSome(a.selected) THEN a.selected.some ELSE 0
    IN  IF count = 0 THEN a
        ELSE [a EXCEPT !.selected = Some(IF i + 1 < count - 1 THEN i + 1 ELSE count - 1)]

select_prev(a) ==
    LET count == Len(sorted_ports(a))
        i == IF IsSome(a.selected) THEN a.selected.some ELSE 0
    IN  IF count = 0 THEN a
        ELSE [a EXCEPT !.selected = Some(IF i = 0 THEN 0 ELSE i - 1)]

select_first(a) ==
    IF sorted_ports(a) # <<>> THEN [a EXCEPT !.selected = Some(0)] ELSE a

select_last(a) ==
    LET count == Len(sorted_ports(a))
    IN  IF count > 0 THEN [a EXCEPT !.selected = Some(count - 1)] ELSE a

\* App::new
new(target, show_all, force, docker_enabled) ==
    {IF sorted_ports(x) # <<>> THEN [x EXCEPT !.selected = Some(0)] ELSE x :
       x \in refresh_data([ports |-> <<>>,
                  docker_enabled |-> docker_enabled,
                  docker_map |-> <<>>,
                  selected |-> None,
                  mode |-> "Table",
                  show_all |-> show_all,
                  filter_text |-> <<>>,
                  popup |-> None,
                  target |-> target,
                  default_force |-> force,
                  should_quit |-> FALSE,
                  detail_index |-> 0,
                  status_message |-> None,
                  sort_column |-> "Port",
                  sort_direction |-> "Asc"])}

\* a popup that is Popup::Kill, and one that is Popup::Docker
IsKill(popup) == IsSome(popup) /\ popup.some.kind = "Kill"
IsDocker(popup) == IsSome(popup) /\ popup.some.kind = "Docker"

\* a d or D that asks for confirmation whatever the row is
kill_popup_for_any_row(info, force) ==
    Some([kind |-> "Kill", pid |-> info.pid, process_name |-> info.process_name,
          port |-> info.port, force |-> force])

\* the popup d and D open on a row: Docker for a container's row (pid 0),
\* Kill otherwise
popup_for_row(info, force) ==
    IF info.pid = 0
    THEN Some([kind |-> "Docker", container_name |-> info.process_name,
               port |-> info.port, selected |-> 0])
    ELSE Some([kind |-> "Kill", pid |-> info.pid, process_name |-> info.process_name,
               port |-> info.port, force |-> force])

\* an outcome without a call of kill_process
Quiet(a) == {[app |-> a, kills |-> <<>>]}

\* the keys with a character, KeyCode::Char(c): those a handler names, with
\* '3' for the column keys, and '8', which no handler names
Chars == {"q", "j", "k", "g", "G", "d", "D", "/", "a", "r", "y", "n", "c", "8", "3"}

\* c as usize - '1' as usize, for c in '1'..='9'
DigitIndex(c) == DigitVal(c) - 1

handle_table_key(a, code) ==
    CASE code \in {"q", "Esc"} -> Quiet([a EXCEPT !.should_quit = TRUE])
      [] code \in {"j", "Down"} -> Quiet(select_next(a))
      [] code \in {"k", "Up"} -> Quiet(select_prev(a))
      [] code \in {"g", "Home"} -> Quiet(select_first(a))
      [] code \in {"G", "End"} -> Quiet(select_last(a))
      [] code = "Enter" ->
           IF IsSome(a.selected)
           THEN Quiet([a EXCEPT !.detail_index = a.selected.some, !.mode = "Detail"])
           ELSE Quiet(a)
      [] code \in {"d", "D"} ->
           LET info == selected_port(a)
               force == IF code = "D" THEN TRUE ELSE a.default_force
           IN  IF IsSome(info)
               THEN Quiet([a EXCEPT !.popup = popup_for_row(info.some, force)])
               ELSE Quiet(a)
      [] code = "/" -> Quiet([a EXCEPT !.mode = "FilterInput", !.filter_text = <<>>])
      [] code = "a" ->
           {[app |-> x, kills |-> <<>>] :
               x \in refresh_data([a EXCEPT !.show_all = ~a.show_all])}
      [] code = "<" -> Quiet([a EXCEPT !.sort_column = prev(a.sort_column)])
      [] code = ">" -> Quiet([a EXCEPT !.sort_column = next(a.sort_column)])
      [] code = "r" -> Quiet([a EXCEPT !.sort_direction = toggle(a.sort_direction)])
      [] code \in Digits \ {"0"} ->
           LET col == from_index(DigitIndex(code))
           IN  IF ~IsSome(col) THEN Quiet(a)
               ELSE IF a.sort_column = col.some
               THEN Quiet([a EXCEPT !.sort_direction = toggle(a.sort_direction)])
               ELSE Quiet([a EXCEPT !.sort_column = col.some, !.sort_direction = "Asc"])
      [] OTHER -> Quiet(a)

handle_detail_key(a, code) ==
    CASE code = "Esc" -> Quiet([a EXCEPT !.mode = "Table"])
      [] code = "q" -> Quiet([a EXCEPT !.should_quit = TRUE])
      [] code \in {"d", "D"} ->
           LET info == get(sorted_ports(a), a.detail_index)
               force == IF code = "D" THEN TRUE ELSE a.default_force
           IN  IF IsSome(info)
               THEN Quiet([a EXCEPT !.popup = popup_for_row(info.some, force)])
               ELSE Quiet(a)
      [] OTHER -> Quiet(a)

\* a filter box that reads its keys as the table does
filter_key_as_table_key(a, code) == handle_table_key(a, code)

handle_filter_key(a, code) ==
    CASE code = "Enter" ->
           LET b == [a EXCEPT !.mode = "Table"]
           IN  Quiet([b EXCEPT !.selected = IF sorted_ports(b) = <<>> THEN None
                                            ELSE Some(0)])
      [] code = "Esc" ->
           LET b == [a EXCEPT !.filter_text = <<>>, !.mode = "Table"]
           IN  IF sorted_ports(b) # <<>> /\ ~IsSome(b.selected)
               THEN Quiet([b EXCEPT !.selected = Some(0)])
               ELSE Quiet(b)
      [] code = "Backspace" ->
           Quiet([a EXCEPT !.filter_text =
                              IF a.filter_text = <<>> THEN <<>>
                              ELSE SubSeq(a.filter_text, 1, Len(a.filter_text) - 1)])
      [] code \in Chars -> Quiet([a EXCEPT !.filter_text = Append(a.filter_text, code)])
      [] OTHER -> Quiet(a)

\* a Kill popup that any key closes
close_on_any_key(a, code) == Quiet([a EXCEPT !.popup = None])

handle_kill_popup_key(a, code) ==
    CASE code \in {"y", "Enter"} ->
           LET popup == a.popup.some
               taken == [a EXCEPT !.popup = None]
           IN  {[app |-> x,
                 kills |-> <<[pid |-> popup.pid, force |-> popup.force]>>] :
                   x \in UNION {refresh_data(
                                  [taken EXCEPT !.status_message =
                                      Some([pid |-> popup.pid,
                                            result |-> kill_process(TuiPlatform,
                                                          U32(popup.pid), popup.force,
                                                          target).result])]) :
                                target \in KillTargets}}
      [] code \in {"n", "Esc"} -> Quiet([a EXCEPT !.popup = None])
      [] OTHER -> Quiet(a)

handle_docker_popup_key(a, code) ==
    LET p == a.popup.some
    IN  CASE code \in {"j", "Down"} ->
               Quiet([a EXCEPT !.popup = Some([p EXCEPT !.selected =
                                   IF p.selected + 1 < 2 THEN p.selected + 1 ELSE 2])])
          [] code \in {"k", "Up"} ->
               Quiet([a EXCEPT !.popup = Some([p EXCEPT !.selected =
                                   IF p.selected = 0 THEN 0 ELSE p.selected - 1])])
          [] code = "Enter" ->
               {[app |-> x, kills |-> <<>>] :
                   x \in refresh_data(
                           [a EXCEPT !.popup = None,
                                     !.status_message =
                                         Some([container |-> p.container_name,
                                               action |-> DockerMessages[p.selected + 1]])])}
          [] code \in {"Esc", "n"} -> Quiet([a EXCEPT !.popup = None])
          [] OTHER -> Quiet(a)

\* a handle_key without the Ctrl+C test
handle_key_without_ctrl_c(a, code, control) ==
    IF IsKill(a.popup) THEN handle_kill_popup_key(a, code)
    ELSE IF IsDocker(a.popup) THEN handle_docker_popup_key(a, code)
    ELSE CASE a.mode = "Table" -> handle_table_key(a, code)
           [] a.mode = "Detail" -> handle_detail_key(a, code)
           [] a.mode = "FilterInput" -> handle_filter_key(a, code)

handle_key(a, code, control) ==
    IF control /\ code = "c" THEN Quiet([a EXCEPT !.should_quit = TRUE])
    ELSE IF IsKill(a.popup) THEN handle_kill_popup_key(a, code)
    ELSE IF IsDocker(a.popup) THEN handle_docker_popup_key(a, code)
    ELSE CASE a.mode = "Table" -> handle_table_key(a, code)
           [] a.mode = "Detail" -> handle_detail_key(a, code)
           [] a.mode = "FilterInput" -> handle_filter_key(a, code)

\* the keys pressed: every key a handler names and one it does not
Keys == Chars \cup {"Esc", "Enter", "Down", "Up", "Home", "End", "Backspace", "Tab"}

\* the characters typed into the filter box
FilterChars == {"8", "n"}

MaxFilter == 1
MaxKills == 1

\* the keys pressed in a state: in the filter box the characters are those
\* of FilterChars, and the box takes no more than MaxFilter of them
KeysIn(a) ==
    IF a.mode = "FilterInput" /\ ~IsSome(a.popup)
    THEN (Keys \ Chars) \cup (IF Len(a.filter_text) < MaxFilter THEN FilterChars ELSE {})
    ELSE Keys

\* the key presses read in a state: a key, or Ctrl+C
Presses(a) ==
    {[code |-> code, control |-> FALSE] : code \in KeysIn(a)}
        \cup {[code |-> "c", control |-> TRUE]}

\* run_tui: an iteration of the loop that reads a key press
HandleKey ==
    /\ pc = "tui"
    /\ ~app.should_quit
    /\ Len(kill_log) < MaxKills
    /\ \E press \in Presses(app) :
         \E out \in handle_key(app, press.code, press.control) :
            /\ app' = out.app
            /\ kill_log' = kill_log \o [k \in 1..Len(out.kills) |->
                                            [pid |-> out.kills[k].pid,
                                             force |-> out.kills[k].force,
                                             code |-> press.code]]
    /\ UNCHANGED <<backend_vars, watch_vars, call, ret, pc>>

\* run_tui: an iteration of the loop a second or more after the last refresh
Tick ==
    /\ pc = "tui"
    /\ ~app.should_quit
    /\ app' \in refresh_data(app)
    /\ UNCHANGED <<backend_vars, watch_vars, call, ret, pc, kill_log>>

InitTui ==
    /\ IdleBackends
    /\ IdleWatch
    /\ pc = "tui"
    /\ call = NoCall
    /\ ret = <<>>
    /\ kill_log = <<>>
    /\ \E force \in BOOLEAN, docker_enabled \in BOOLEAN :
          app \in new(None, FALSE, force, docker_enabled)

NextTui == HandleKey \/ Tick

SpecTui == InitTui /\ [][NextTui]_vars

----------------------------------------------------------------------------
(* JSON watch mode: the loop of run_watch_mode and the interrupt handlers *)

\* `for _ in 0..20`: the sleep steps between two snapshots
SleepSteps == 20

\* the snapshots one run of the loop writes at most
MaxSnapshots == 2

\* what write_display_safe returns: Ok(()), or the error of a failed write
WriteResults == {"Ok", "Err"}

\* the control events a console handler is called with: CTRL_C_EVENT,
\* CTRL_BREAK_EVENT, CTRL_CLOSE_EVENT, CTRL_LOGOFF_EVENT, CTRL_SHUTDOWN_EVENT
CtrlTypes == {0, 1, 2, 5, 6}

WatchPcs == {"while", "write_display_safe", "for", "sleep", "returned"}

\* handle_sigint: RUNNING.store(false)
HandleSigint ==
    /\ os \in {"linux", "macos"}
    /\ pc \in WatchPcs
    /\ RUNNING' = FALSE
    /\ UNCHANGED <<backend_vars, tui_vars, pc, watch>>

\* handle_ctrl: RUNNING.store(false) on CTRL_C_EVENT and CTRL_BREAK_EVENT
handle_ctrl(running, ctrl_type) ==
    IF ctrl_type = 0 \/ ctrl_type = 1
    THEN [RUNNING |-> FALSE, handled |-> 1]
    ELSE [RUNNING |-> running, handled |-> 0]

HandleCtrl ==
    /\ os = "windows"
    /\ pc \in WatchPcs
    /\ \E ctrl_type \in CtrlTypes : RUNNING' = handle_ctrl(RUNNING, ctrl_type).RUNNING
    /\ UNCHANGED <<backend_vars, tui_vars, pc, watch>>

\* a sleep loop that runs its twenty steps whatever the flag
sleep_all_steps(step, running) == step < SleepSteps

\* `for _ in 0..20 { if !RUNNING.load(..) { break; } ..`: whether the next
\* sleep step is taken
sleep_next(step, running) == step < SleepSteps /\ running

\* `while RUNNING.load(..)`
WatchWhile ==
    /\ pc = "while"
    /\ IF RUNNING
       THEN watch.snapshots < MaxSnapshots /\ pc' = "write_display_safe"
       ELSE pc' = "returned"
    /\ UNCHANGED <<backend_vars, tui_vars, watch_vars>>

\* `if write_display_safe(..).is_err() { break; }`
WatchWrite ==
    /\ pc = "write_display_safe"
    /\ \E result \in WriteResults :
          /\ watch' = [step |-> 0,
                       snapshots |-> watch.snapshots + (IF result = "Ok" THEN 1 ELSE 0),
                       result |-> result]
          /\ pc' = IF result = "Err" THEN "returned" ELSE "for"
    /\ UNCHANGED <<backend_vars, tui_vars, RUNNING>>

\* the head of the `for` loop and its test of RUNNING
WatchFor ==
    /\ pc = "for"
    /\ pc' = IF sleep_next(watch.step, RUNNING) THEN "sleep" ELSE "while"
    /\ UNCHANGED <<backend_vars, tui_vars, watch_vars>>

\* std::thread::sleep(Duration::from_millis(50))
WatchSleep ==
    /\ pc = "sleep"
    /\ watch' = [watch EXCEPT !.step = @ + 1]
    /\ pc' = "for"
    /\ UNCHANGED <<backend_vars, tui_vars, RUNNING>>

\* the steps of the main thread
WatchLoop == WatchWhile \/ WatchWrite \/ WatchFor \/ WatchSleep

\* run_watch_mode after the handler is registered
InitWatch ==
    /\ IdleTui
    /\ IdleWatch
    /\ os \in {"linux", "macos", "windows"}
    /\ build \in {"debug", "release"}
    /\ filter_listening = FALSE
    /\ procfs = NoProc
    /\ xnu = <<>>
    /\ mib = <<>>
    /\ pid_sockets = <<>>
    /\ handle_log = <<>>
    /\ infos = <<>>
    /\ kill = NoKill
    /\ pc = "while"

NextWatch == WatchWhile \/ WatchWrite \/ WatchFor \/ WatchSleep \/ HandleSigint \/ HandleCtrl

SpecWatch == InitWatch /\ [][NextWatch]_vars

\* the main thread is scheduled: a write returns, a sleep ends
SpecWatchLive == SpecWatch /\ WF_vars(WatchLoop)

----------------------------------------------------------------------------

(* The routines, each applied to one of its inputs *)

InitRoutines ==
    /\ IdleBackends
    /\ IdleWatch
    /\ pc = "call"
    /\ call \in FromIndexCalls \cup SegmentCalls \cup PsCalls \cup SynthesizeCalls
                  \cup FiletimeCalls \cup AddrPortCalls \cup ProcNetCalls
                  \cup SortedPortsCalls
    /\ ret = <<>>
    /\ app = NoApp
    /\ kill_log = <<>>

NextRoutines ==
    \/ FromIndex
    \/ ParsePortSegment
    \/ ParsePsOutput
    \/ SynthesizeDockerEntries
    \/ FiletimeToSystemTime
    \/ ParseAddrPort
    \/ ParseProcNet
    \/ SortedPorts

SpecRoutines == InitRoutines /\ [][NextRoutines]_vars

----------------------------------------------------------------------------
(* Claims about the routines *)

C13_PortSegment ==
    Returned("parse_port_segment") => ret = call.expect

\* "0.0.0.0:49153-49155->8080-8082/tcp" gives (49153, 8080, "TCP")
C13_Witness ==
    /\ Returned("parse_port_segment")
    /\ call.segment = <<"0", ".", "0", ".", "0", ".", "0", ":", "4", "9", "1", "5", "3", "-",
                        "4", "9", "1", "5", "5", "-", ">", "8", "0", "8", "0", "-",
                        "8", "0", "8", "2", "/", "t", "c", "p">>
    /\ ret = Some(<<49153, 8080, TCP>>)

\* C14: in the map parse_ps_output builds, no two owners under one host port
\* share (container_id, container_port, protocol), every key has at least
\* one owner, and the lines with fewer than four fields or an empty ports
\* field contribute nothing: the map is the one of the text without them.
C14_PsOutput ==
    Returned("parse_ps_output") =>
        /\ \A k \in DOMAIN ret :
             /\ Len(ret[k]) >= 1
             /\ \A i, j \in 1..Len(ret[k]) :
                  i # j => \/ ret[k][i].container_id # ret[k][j].container_id
                           \/ ret[k][i].container_port # ret[k][j].container_port
                           \/ ret[k][i].protocol # ret[k][j].protocol
        /\ ret = parse_ps_output(PsText(SelectSeq(call.lines, LAMBDA l : l.kind = "ports")))

\* a line without ports, then a line that publishes 8080->80/tcp over IPv4
\* and over IPv6: one key with one owner
C14_Witness ==
    /\ Returned("parse_ps_output")
    /\ Len(call.lines) = 2
    /\ call.lines[1].kind = "empty_ports"
    /\ Len(split(call.lines[2].text, ",")) = 2
    /\ DOMAIN ret = {8080}
    /\ Len(ret[8080]) = 1
    /\ ret[8080][1].container_port = 80

\* C15: every synthetic entry has pid 0, state Listen and a published port
\* that no entry of the host list uses; every owner of such a port is
\* represented by an entry with its port, protocol and container name; no
\* two synthetic entries share (port, protocol, container name).
C15_SyntheticEntries ==
    Returned("synthesize_docker_entries") =>
        LET used == {call.infos[i].port : i \in 1..Len(call.infos)}
            map == call.docker_map
        IN  /\ \A i \in 1..Len(ret) :
                 /\ ret[i].pid = 0
                 /\ ret[i].state = "Listen"
                 /\ ret[i].port \in DOMAIN map \ used
            /\ \A k \in DOMAIN map \ used :
                 \A o \in 1..Len(map[k]) :
                     \E i \in 1..Len(ret) :
                         /\ ret[i].port = k
                         /\ ret[i].protocol = map[k][o].protocol
                         /\ ret[i].process_name = map[k][o].container_name
            /\ \A i, j \in 1..Len(ret) :
                 i # j => \/ ret[i].port # ret[j].port
                          \/ ret[i].protocol # ret[j].protocol
                          \/ ret[i].process_name # ret[j].process_name

\* two published ports, one of them used by a host process, the other
\* published twice by one container: one synthetic entry
C15_Witness ==
    /\ Returned("synthesize_docker_entries")
    /\ DOMAIN call.docker_map = {8080, 49153}
    /\ Len(call.docker_map[8080]) = 2
    /\ call.infos = <<HostEntry(49153, 1)>>
    /\ Len(ret) = 1
    /\ ret[1].port = 8080
    /\ ret[1].pid = 0

\* C16: filetime_to_system_time(low, high) returns None when the ticks are
\* below the offset, and otherwise the epoch plus floor((ticks - offset) /
\* 10^7) seconds plus ((ticks - offset) mod 10^7) * 100 nanoseconds, for
\* every 64-bit input: the offset gives the epoch, offset + 10^7 one second,
\* and the nanoseconds are below 10^9.
C16_FiletimeConversion ==
    Returned("filetime_to_system_time") =>
        LET ticks == call.low \o call.high
        IN  IF WLess(ticks, FILETIME_UNIX_OFFSET) THEN ret = None
            ELSE /\ IsSome(ret)
                 /\ ret.some.nanos < 10^9
                 /\ ret.some.nanos % 100 = 0
                 /\ LET whole == MulAdd(MulAdd(ret.some.secs, 10000, 0).val, 1000,
                                        ret.some.nanos \div 100).val
                    IN  WAdd(whole, FILETIME_UNIX_OFFSET).val = ticks
                 /\ ticks = FILETIME_UNIX_OFFSET =>
                        ret.some = [secs |-> U64(0), nanos |-> 0]
                 /\ ticks = WAdd(FILETIME_UNIX_OFFSET, U64(10000000)).val =>
                        ret.some = [secs |-> U64(1), nanos |-> 0]

Reverse(s) == [i \in 1..Len(s) |-> s[Len(s) + 1 - i]]

\* C17 as stated: for an IPv4 field the octets are the bytes of the hex
\* number in reversed order and the port is the value of the hex digits
\* after the last ':'; unparseable hex gives 0.0.0.0 or port 0.
C17_AddrPortReversed ==
    (Returned("parse_addr_port") /\ ~call.ipv6) =>
        ret = <<[v6 |-> FALSE, octets |-> Reverse(call.bytes)], call.port>>

\* C17 by target: on a little-endian target the octets are the bytes of the
\* hex number in reversed order, on a big-endian target in written order;
\* the port is the value of the hex digits after the last ':'; unparseable
\* hex gives 0.0.0.0 or port 0.
C17_AddrPortByTarget ==
    (Returned("parse_addr_port") /\ ~call.ipv6) =>
        ret = <<[v6 |-> FALSE,
                 octets |-> IF call.target_endian = "little" THEN Reverse(call.bytes)
                            ELSE call.bytes],
                call.port>>

\* "0100007F:0050" on a little-endian target gives 127.0.0.1 and port 80
C17_Witness ==
    /\ Returned("parse_addr_port")
    /\ call.target_endian = "little"
    /\ call.field = <<"0", "1", "0", "0", "0", "0", "7", "F", ":", "0", "0", "5", "0">>
    /\ ret = <<[v6 |-> FALSE, octets |-> <<127, 0, 0, 1>>], 80>>

\* the tables of the claim, by state code
TcpTable ==
    ("0A" :> "Listen") @@ ("01" :> "Established") @@ ("06" :> "TimeWait")
      @@ ("08" :> "CloseWait") @@ ("04" :> "FinWait1") @@ ("05" :> "FinWait2")
      @@ ("02" :> "SynSent") @@ ("03" :> "SynRecv") @@ ("0B" :> "Closing")
      @@ ("09" :> "LastAck") @@ ("07" :> "Close")

UdpTable == ("07" :> "Listen") @@ ("01" :> "Established")

\* C18: the state code of a Linux row is mapped by protocol, by the TCP table
\* for rows of tcp and tcp6 and by the UDP table for rows of udp and udp6;
\* every other code maps to Unknown and the row is still returned.
C18_StateByProtocol ==
    Returned("parse_proc_net") =>
        LET table == IF call.file \in {3, 4} THEN UdpTable ELSE TcpTable
        IN  /\ Len(ret) = 1
            /\ ret[1].state = IF call.st \in DOMAIN table THEN table[call.st]
                              ELSE "Unknown"

\* code 07 in /proc/net/udp is Listen, and Close in /proc/net/tcp
C18_Witness ==
    /\ Returned("parse_proc_net")
    /\ call.file = 3
    /\ call.st = "07"
    /\ ret[1].state = "Listen"

\* C19 as stated: when the sort column is Uptime, every record with a
\* start_time precedes every record without one in the list sorted_ports
\* returns, for either sort direction.
C19_UptimeNoneLast ==
    (Returned("sorted_ports") /\ call.app.sort_column = "Uptime") =>
        \A i, j \in 1..Len(ret) :
            (IsSome(ret[i].start_time) /\ ~IsSome(ret[j].start_time)) => i < j

----------------------------------------------------------------------------
(* Claims about the interactive view *)

\* the row d and D act on: the selected row in Table mode, the row of the
\* detail view in Detail mode
CursorRow(a) ==
    CASE a.mode = "Table" -> selected_port(a)
      [] a.mode = "Detail" -> get(sorted_ports(a), a.detail_index)
      [] OTHER -> None

\* C20: kill_process is invoked only when 'y' or Enter is pressed while a
\* Kill popup is open, at most once per popup (the call closes it), with
\* exactly the pid and force flag the popup has held since it was opened
\* (no step, a data refresh included, changes an open Kill popup), and that
\* pid is never 0: a popup opens on the row under the cursor, in Table mode
\* and in Detail mode, by d or D, and it is the Docker popup when the row's
\* pid is 0 and a Kill popup for the row's pid otherwise.
C20_KillOnlyFromPopup ==
    /\ [](\A k \in 1..Len(kill_log) :
             kill_log[k].code \in {"y", "Enter"} /\ kill_log[k].pid # 0)
    /\ [][kill_log' # kill_log =>
             /\ IsKill(app.popup)
             /\ app'.popup = None
             /\ Len(kill_log') = Len(kill_log) + 1
             /\ SubSeq(kill_log', 1, Len(kill_log)) = kill_log
             /\ kill_log'[Len(kill_log')].pid = app.popup.some.pid
             /\ kill_log'[Len(kill_log')].force = app.popup.some.force]_vars
    /\ [][(IsKill(app.popup) /\ IsSome(app'.popup)) => app'.popup = app.popup]_vars
    /\ [][(~IsSome(app.popup) /\ IsSome(app'.popup)) =>
             /\ IsSome(CursorRow(app))
             /\ IF CursorRow(app).some.pid = 0
                THEN /\ IsDocker(app'.popup)
                     /\ app'.popup.some.container_name = CursorRow(app).some.process_name
                ELSE /\ IsKill(app'.popup)
                     /\ app'.popup.some.pid = CursorRow(app).some.pid
                     /\ app'.popup.some.force \in {TRUE, app.default_force}]_vars

\* a forced kill confirmed with Enter from the detail view, in a view that
\* also lists a container's row
C20_Witness ==
    /\ pc = "tui"
    /\ Len(kill_log) = 1
    /\ kill_log[1].force
    /\ kill_log[1].code = "Enter"
    /\ app.mode = "Detail"
    /\ \E i \in 1..Len(app.ports) : app.ports[i].pid = 0

----------------------------------------------------------------------------
(* Claims about the selection of the interactive view *)

\* the selection is None when no row is visible, and otherwise an index
\* smaller than the number of rows sorted_ports returns
SelectionInRange(a) ==
    IF sorted_ports(a) = <<>> THEN a.selected = None
    ELSE IsSome(a.selected) /\ a.selected.some < Len(sorted_ports(a))

\* C21 as stated: after any sequence of key presses and refreshes from
\* App::new, in every mode (Table, Detail, FilterInput), the selection is
\* None when no row is visible and otherwise an index smaller than the
\* number of rows sorted_ports returns.
C21_SelectionInRange == pc = "tui" => SelectionInRange(app)

\* C21 as the code has it: the selection is in range in Table mode and in
\* Detail mode; in FilterInput mode it is left as it was while the filter
\* text changes, until Enter, Esc or a refresh sets it again.
C21_SelectionInRangeOutsideFilter ==
    (pc = "tui" /\ app.mode \in {"Table", "Detail"}) => SelectionInRange(app)

\* back in Table mode with a filter that hides the two sockets and shows the
\* container's row, which is selected
C21_Witness ==
    /\ pc = "tui"
    /\ app.mode = "Table"
    /\ app.filter_text = <<"n">>
    /\ Len(app.ports) = 3
    /\ Len(sorted_ports(app)) = 1
    /\ app.selected = Some(0)

----------------------------------------------------------------------------
(* Claims about what the assembled list holds *)

\* the raw Linux sockets that have a nonzero local port, pass the listening
\* filter and have their inode in the inode-to-pid table, in enumeration
\* order, each as the (port, protocol, pid, state, local_addr) it stands for
LinuxResolved ==
    LET socks == get_all_sockets(procfs)
        map == build_inode_to_pid_map(procfs)
        kept == SelectSeq(socks, LAMBDA sock :
                    /\ sock.local_port # 0
                    /\ ~(filter_listening /\ sock.state # "Listen"
                           /\ ~starts_with(sock.protocol, UDP))
                    /\ sock.inode \in DOMAIN map)
    IN  [i \in 1..Len(kept) |->
            [port |-> kept[i].local_port,
             protocol |-> IF kept[i].protocol \in {TCP, TCP6} THEN TCP ELSE UDP,
             pid |-> map[kept[i].inode],
             state |-> kept[i].state,
             local_addr |-> kept[i].local_addr]]

\* the first socket of a triple in enumeration order
FirstOfTriple(socks, t) ==
    socks[CHOOSE i \in 1..Len(socks) :
            /\ Triple(socks[i]) = t
            /\ \A j \in 1..(i - 1) : Triple(socks[j]) # t]

\* C22 as stated, on Linux: every raw socket with a nonzero local port that
\* passes the listening filter and whose inode is in the inode-to-pid table
\* has an entry with its (port, protocol without the '6', pid), and the
\* (port, protocol, pid, state, local_addr) of every returned entry are
\* those of the first such socket of its triple in enumeration order.
C22_NothingLostNothingInvented ==
    (os = "linux" /\ pc = "done") =>
        /\ \A k \in 1..Len(LinuxResolved) :
              HasEntry(infos, LinuxResolved[k].port, LinuxResolved[k].protocol,
                       LinuxResolved[k].pid)
        /\ \A i \in 1..Len(infos) :
              /\ \E k \in 1..Len(LinuxResolved) :
                    Triple(LinuxResolved[k]) = Triple(infos[i])
              /\ LET first == FirstOfTriple(LinuxResolved, Triple(infos[i]))
                 IN  /\ infos[i].state = first.state
                     /\ infos[i].local_addr = first.local_addr

\* C23 as stated, on the IPv4 TCP table: the size call followed by the fill
\* call returns the rows of the table also when the table has grown between
\* the two calls; a failure of the fill call yields no rows.
C23_GrownTableStillRead ==
    (os = "windows" /\ pc = "done" /\ mib.tcp4.first = "ERROR_INSUFFICIENT_BUFFER") =>
        IF mib.tcp4.fill_error THEN get_tcp4_sockets(mib) = <<>>
        ELSE Len(get_tcp4_sockets(mib)) = Len(mib.tcp4.rows)

----------------------------------------------------------------------------
(* Claims about the detail view *)

\* the record render_detail shows and d and D act on in Detail mode
DetailRow(a) == get(sorted_ports(a), a.detail_index)

\* the port and process a record stands for
Identity(info) == <<info.port, info.protocol, info.pid, info.process_name>>

\* C24 as stated, step by step: Enter opens the detail view on the selected
\* record; while the view stays in Detail mode, whatever refreshes and key
\* presses happen, the record shown is, whenever there is one, the same port
\* and process as before the step; and a popup opened from the detail view
\* is for that record.
C24_DetailRecordStable ==
    /\ [][(app.mode = "Table" /\ app'.mode = "Detail") =>
             DetailRow(app') = selected_port(app)]_vars
    /\ [][(app.mode = "Detail" /\ app'.mode = "Detail"
             /\ IsSome(DetailRow(app)) /\ IsSome(DetailRow(app'))) =>
             Identity(DetailRow(app').some) = Identity(DetailRow(app).some)]_vars
    /\ [][(app.mode = "Detail" /\ ~IsSome(app.popup) /\ IsSome(app'.popup)) =>
             /\ IsSome(DetailRow(app))
             /\ app'.popup.some.port = DetailRow(app).some.port]_vars

----------------------------------------------------------------------------
(* Claims about the order of the pid-grouping map *)

\* C25: the list the Windows get_port_infos returns does not depend on the
\* order in which the pid-grouping map is iterated: for the same table rows
\* and per-process details every order of the pids yields the same list.
C25_WinOrderIndependent ==
    (os = "windows" /\ pc = "done") =>
        \A order \in Orders(DOMAIN pid_sockets) :
            windows_get_port_infos(mib, filter_listening, order).infos = infos

\* two processes with a socket on the same port and protocol, one of them
\* on both IPv4 and IPv6, returned in pid order
C25_Witness ==
    /\ os = "windows"
    /\ pc = "done"
    /\ Cardinality(DOMAIN pid_sockets) >= 2
    /\ \E p \in DOMAIN pid_sockets :
          \E i, j \in 1..Len(pid_sockets[p]) :
             /\ i < j
             /\ pid_sockets[p][i].local_port = pid_sockets[p][j].local_port
             /\ pid_sockets[p][i].protocol = pid_sockets[p][j].protocol
             /\ pid_sockets[p][i].local_addr # pid_sockets[p][j].local_addr
    /\ \E i \in 1..(Len(infos) - 1) :
          /\ infos[i].port = infos[i + 1].port
          /\ infos[i].protocol = infos[i + 1].protocol
          /\ infos[i].pid < infos[i + 1].pid

----------------------------------------------------------------------------
(* Claims about JSON watch mode *)

\* C26: once the interrupt handler has cleared RUNNING, at any point of the
\* loop, the flag stays cleared, no further snapshot is started or written,
\* no further sleep step is started, and the loop returns; a write error
\* also ends the loop.
C26_InterruptEndsWatch ==
    /\ [][~RUNNING => ~RUNNING']_vars
    /\ [][(~RUNNING /\ pc # "write_display_safe") =>
              (pc' # "write_display_safe" /\ watch'.snapshots = watch.snapshots)]_vars
    /\ [][(~RUNNING /\ pc # "sleep") => pc' # "sleep"]_vars
    /\ [][(pc = "write_display_safe" /\ pc' # pc /\ watch'.result = "Err") =>
              pc' = "returned"]_vars
    /\ (~RUNNING ~> pc = "returned")

\* interrupted between two sleep steps after a snapshot: the loop has
\* returned with sleep steps left
C26_Witness ==
    /\ pc = "returned"
    /\ ~RUNNING
    /\ watch.result = "Ok"
    /\ watch.snapshots = 1
    /\ watch.step \in 1..(SleepSteps - 1)

----------------------------------------------------------------------------
(* Claims about the keys of an open popup *)

\* the keys that confirm and that cancel a popup
ConfirmKeys(popup) == IF IsKill(popup) THEN {"y", "Enter"} ELSE {"Enter"}
CancelKeys == {"n", "Esc"}

\* the key presses that do not confirm a popup
OtherPresses(a) ==
    {press \in Presses(a) : press.control \/ press.code \notin ConfirmKeys(a.popup)}

\* C27: while a Kill or Docker popup is open, no key press changes the mode,
\* the filter text, the sort column, the sort direction or show_all; only
\* the popup's confirm key (y or Enter for Kill, Enter for Docker) and its
\* cancel key (n or Esc) close it; every other key except Ctrl+C leaves the
\* application as it is, but for the Docker popup's selected action, which
\* stays within 0..2.
C27_PopupKeysContained ==
    /\ [][(pc = "tui" /\ IsSome(app.popup)) =>
              /\ app'.mode = app.mode
              /\ app'.filter_text = app.filter_text
              /\ app'.sort_column = app.sort_column
              /\ app'.sort_direction = app.sort_direction
              /\ app'.show_all = app.show_all]_vars
    /\ [](pc = "tui" /\ IsDocker(app.popup) => app.popup.some.selected \in 0..2)
    /\ []((pc = "tui" /\ IsSome(app.popup)) =>
            \A press \in OtherPresses(app) :
               \A out \in handle_key(app, press.code, press.control) :
                  LET b == out.app
                      ctrl_c == press.control /\ press.code = "c"
                      cancel == ~ctrl_c /\ press.code \in CancelKeys
                  IN  /\ out.kills = <<>>
                      /\ ~IsSome(b.popup) <=> cancel
                      /\ (~cancel /\ ~ctrl_c) =>
                            IF IsDocker(app.popup)
                            THEN /\ IsDocker(b.popup)
                                 /\ b = [app EXCEPT !.popup =
                                            Some([app.popup.some EXCEPT !.selected =
                                                     b.popup.some.selected])]
                            ELSE b = app)

\* a Docker popup opened from the detail view, moved to its last action
C27_Witness ==
    /\ pc = "tui"
    /\ app.mode = "Detail"
    /\ IsDocker(app.popup)
    /\ app.popup.some.selected = 2
    /\ app.filter_text # <<>>

----------------------------------------------------------------------------
(* Claims about quitting *)

\* C28: in every state of the TUI, whatever the mode and with or without an
\* open popup, Ctrl+C sets should_quit and does nothing else: no call of
\* kill_process, no Docker action; once should_quit is true no key press is
\* handled and no refresh is made any more, so it is never reset.
C28_CtrlCQuits ==
    /\ [](pc = "tui" =>
            \A out \in handle_key(app, "c", TRUE) :
               /\ out.app = [app EXCEPT !.should_quit = TRUE]
               /\ out.kills = <<>>)
    /\ [][(pc = "tui" /\ app.should_quit) => UNCHANGED <<app, kill_log>>]_vars

\* Ctrl+C pressed on an open Kill popup in the detail view: the popup is
\* still there and nothing was killed
C28_Witness ==
    /\ pc = "tui"
    /\ app.should_quit
    /\ app.mode = "Detail"
    /\ IsKill(app.popup)
    /\ kill_log = <<>>

----------------------------------------------------------------------------
(* Claims about the filter box *)

\* C29: FilterInput mode is entered only from Table mode without a popup,
\* by a step that empties the filter text ('/'); in it no key but Ctrl+C
\* quits, and a typed 'q' is appended to the filter text; Esc empties the
\* filter text and returns to Table mode; Enter returns to Table mode with
\* the typed text kept and selects the first visible row, or no row when
\* nothing matches.
C29_FilterBox ==
    /\ [][(pc = "tui" /\ app.mode # "FilterInput" /\ app'.mode = "FilterInput") =>
              /\ app.mode = "Table"
              /\ ~IsSome(app.popup)
              /\ app'.filter_text = <<>>
              /\ app' \in {out.app : out \in handle_key(app, "/", FALSE)}]_vars
    /\ []((pc = "tui" /\ app.mode = "FilterInput") =>
            /\ ~IsSome(app.popup)
            /\ \A code \in Keys :
                  \A out \in handle_key(app, code, FALSE) :
                     /\ out.app.should_quit = app.should_quit
                     /\ out.kills = <<>>
            /\ handle_key(app, "q", FALSE) =
                  Quiet([app EXCEPT !.filter_text = Append(app.filter_text, "q")])
            /\ \A out \in handle_key(app, "Esc", FALSE) :
                  /\ out.app.mode = "Table"
                  /\ out.app.filter_text = <<>>
            /\ \A out \in handle_key(app, "Enter", FALSE) :
                  /\ out.app.mode = "Table"
                  /\ out.app.filter_text = app.filter_text
                  /\ out.app.selected = IF sorted_ports(out.app) = <<>> THEN None
                                        ELSE Some(0))

\* Enter pressed on a filter text that matches nothing: Table mode, the text
\* kept, no row selected
C29_Witness ==
    /\ pc = "tui"
    /\ app.mode = "Table"
    /\ app.filter_text = <<"n">>
    /\ app.ports # <<>>
    /\ sorted_ports(app) = <<>>
    /\ app.selected = None
    /\ ~app.should_quit

----------------------------------------------------------------------------
(* Claims about IPv6 address fields *)

\* the address text of a field: what precedes its last ':'
AddrHex(field) == SubSeq(field, 1, rfind(field, ":").some)

\* byte k (from 1) of a text of hex digits, as written
WrittenByte(hex, k) == 16 * HexVal(hex[2 * k - 1]) + HexVal(hex[2 * k])

\* C30: an IPv6 address text of 32 hex digits is decoded group by group:
\* the four written bytes of each 8-digit group come out in reversed order
\* at the group's own four positions (the text of ::1 gives ::1, that of
\* ::ffff:127.0.0.1 gives ::ffff:127.0.0.1); a text whose length is not 32
\* gives the unspecified address.
C30_V6GroupSwapped ==
    (Returned("parse_addr_port") /\ call.ipv6) =>
        /\ ret[1] = [v6 |-> TRUE,
                     octets |-> IF Len(AddrHex(call.field)) = 32
                                THEN [i \in 1..16 |->
                                         WrittenByte(AddrHex(call.field),
                                                     4 * ((i - 1) \div 4) + 4 - ((i - 1) % 4))]
                                ELSE [i \in 1..16 |-> 0]]
        /\ AddrHex(call.field) = V6Loopback =>
              ret[1].octets = <<0, 0, 0, 0, 0, 0, 0, 0, 0, 0, 0, 0, 0, 0, 0, 1>>
        /\ AddrHex(call.field) = V6MappedLoopback =>
              ret[1].octets = <<0, 0, 0, 0, 0, 0, 0, 0, 0, 0, 255, 255, 127, 0, 0, 1>>

\* the text of 2001:db8::1 decoded, every group swapped in place
C30_Witness ==
    /\ Returned("parse_addr_port")
    /\ call.ipv6
    /\ AddrHex(call.field) = V6Documentation
    /\ ret[1].octets = <<32, 1, 13, 184, 0, 0, 0, 0, 0, 0, 0, 0, 0, 0, 0, 1>>

============================================================================
